---- MODULE Spec2Model ----
(***************************************************************************)
(* A model of python-edata: the list utilities that reconcile fetched      *)
(* records into a series and scan it for gaps (processors/utils.py,        *)
(* data.py), and the update procedure of EdataHelper (helpers.py).         *)
(*                                                                         *)
(* Datetimes are integers (hours on the data axis); a timedelta is an      *)
(* integer number of hours.  A record (a Python dict) is a function from   *)
(* its field names to values, so two records are equal exactly when they   *)
(* have the same fields and the same values.                               *)
(***************************************************************************)
EXTENDS Integers, Sequences, FiniteSets, TLC

\* ------------------------------------------------------------------ bounds
MaxT == 3            \* datetimes of the function-level checks are 0..MaxT
MaxKWh == 2          \* value_kWh of a record is 1..MaxKWh
MaxKey == 1          \* keys (datetimes) of the reconcile checks are 0..MaxKey
MaxOld == 2          \* longest existing series handed to extend_by_key
MaxNew == 2          \* longest incoming batch handed to extend_by_key
MaxSeries == 3       \* longest series handed to find_gaps / extract_dt_ranges
MaxGap == 2          \* gap_interval is 0..MaxGap
MaxH == 1            \* the helper's data lies at the hours 0..MaxH of a day and one late hour
MaxUpdates == 2      \* update calls made on one helper
MaxTicks == 2        \* advances of the clock
MaxContracts == 2    \* contracts in one reply of get_contract_detail
MaxBatch == 2        \* records in one reply of get_consumption_data
MaxBatchMaxim == 1   \* records in one reply of get_max_power

Times == 0..MaxT

\* sequences over S of length 0..n
SeqUpTo(S, n) == UNION {[1..k -> S] : k \in 0..n}

\* ------------------------------------------------------------------ state
VARIABLES
    arg_lst,      \* function-level checks: the series argument
    arg_new,      \* function-level checks: the incoming batch argument
    arg_from,     \* function-level checks: dt_from
    arg_to,       \* function-level checks: dt_to
    arg_gap,      \* function-level checks: gap_interval
    ret,          \* function-level checks: what the last call returned
    pc,                 \* where the current EdataHelper.update call stands
    now,                \* datetime.now(), in hours
    ticks,              \* how often the clock has advanced
    updates,            \* how many update calls have been started
    date_from,          \* the window of the current update call
    date_to,
    data_supplies,      \* self.data["supplies"]
    data_contracts,     \* self.data["contracts"]
    data_consumptions,  \* self.data["consumptions"]
    data_maximeter,     \* self.data["maximeter"]
    last_update,        \* self.last_update
    miss_cons,          \* update_datadis: the gaps of the last scan of the consumptions
    miss_maxim,         \* update_datadis: the gaps of the last scan of the maximeter
    todo,               \* update_datadis: the fetches its loops have still to make
    result,             \* what update_datadis returned
    passes,             \* how often the current update call has run update_datadis
    scan_miss,          \* the gaps the first scan of the current call reported
    requests,           \* the fetches the current call has issued to the connector
    reconciled,         \* the datetimes the current call has merged into the consumptions
    recent_queries,     \* DatadisConnector._recent_queries: query -> time it was recorded
    recent_cache,       \* DatadisConnector._recent_cache: query -> response
    answers,            \* the non-empty 200 answers the connector got, oldest first
    last_http,          \* query -> time of the last HTTP GET issued for it
    gets,               \* how many _get calls have been made
    workers,            \* the executor's threads running update: position and locals
    data_consumptions_daily_sum,    \* self.data["consumptions_daily_sum"]
    data_consumptions_monthly_sum,  \* self.data["consumptions_monthly_sum"]
    args                \* processor checks: the arguments of the call

argVars == <<arg_lst, arg_new, arg_from, arg_to, arg_gap>>

helperVars == <<pc, now, ticks, updates, date_from, date_to, data_supplies, data_contracts,
                data_consumptions, data_maximeter, last_update, miss_cons, miss_maxim,
                todo, result, passes, scan_miss, requests, reconciled>>

connVars == <<recent_queries, recent_cache, answers, last_http, gets>>

asyncVars == <<workers>>

procVars == <<args>>

derivedVars == <<data_consumptions_daily_sum, data_consumptions_monthly_sum>>

\* the variables of the connector, of the executor and of the processors, and
\* the derived data of the helper
otherVars == <<connVars, asyncVars, procVars, derivedVars>>

vars == <<argVars, ret, helperVars, otherVars>>

\* ------------------------------------------------- processors/utils.py, data.py

\* index of the first element of lst whose key field equals value, 0 if none
\* (the inner "for old_element in lst ... break" of extend_by_key)
RECURSIVE FirstMatchFrom(_, _, _, _)
FirstMatchFrom(lst, key, value, j) ==
    IF j > Len(lst) THEN 0
    ELSE IF lst[j][key] = value THEN j
    ELSE FirstMatchFrom(lst, key, value, j + 1)

FirstMatch(lst, key, value) == FirstMatchFrom(lst, key, value, 1)

\* "for i in old_element: old_element[i] = new_element[i]": only the fields the
\* old element already has are assigned
OverwriteOwnFields(old_element, new_element) ==
    [i \in DOMAIN old_element |-> new_element[i]]

\* the loop of extend_by_key from the n-th incoming element on; new_element[i]
\* raises KeyError when the incoming element lacks a field of the old one
RECURSIVE ExtendLoop(_, _, _, _, _)
ExtendLoop(lst, temp_list, new_lst, key, n) ==
    IF n > Len(new_lst)
    THEN [raised |-> FALSE, lst |-> lst \o temp_list]
    ELSE LET new_element == new_lst[n]
             j == FirstMatch(lst, key, new_element[key])
         IN  IF j = 0
             THEN ExtendLoop(lst, Append(temp_list, new_element), new_lst, key, n + 1)
             ELSE IF ~(DOMAIN lst[j] \subseteq DOMAIN new_element)
             THEN [raised |-> TRUE, lst |-> <<>>]
             ELSE ExtendLoop([lst EXCEPT ![j] = OverwriteOwnFields(@, new_element)],
                             temp_list, new_lst, key, n + 1)

extend_by_key(old_lst, new_lst, key) == ExtendLoop(old_lst, <<>>, new_lst, key, 1)

\* data.py has the same function under another name
add_or_update(base_items, new_items, key) == ExtendLoop(base_items, <<>>, new_items, key, 1)

\* data.py filter_by_key_in_range: the elements whose key lies in [dt_from, dt_to]
filter_by_key_in_range(lst, key, dt_from, dt_to) ==
    SelectSeq(lst, LAMBDA x : dt_from <= x[key] /\ x[key] <= dt_to)

\* sorted(lst, key=...) is stable: x goes after every element whose key is <= its own
RECURSIVE InsertSorted(_, _, _)
InsertSorted(sorted_lst, x, key) ==
    IF sorted_lst = <<>> THEN <<x>>
    ELSE IF x[key] < Head(sorted_lst)[key] THEN <<x>> \o sorted_lst
    ELSE <<Head(sorted_lst)>> \o InsertSorted(Tail(sorted_lst), x, key)

RECURSIVE SortFrom(_, _, _, _)
SortFrom(lst, key, n, acc) ==
    IF n > Len(lst) THEN acc
    ELSE SortFrom(lst, key, n + 1, InsertSorted(acc, lst[n], key))

\* data.py sort_by_key
sort_by_key(lst, key) == SortFrom(lst, key, 1, <<>>)

\* data.py remove_duplicates_by_key: the first element of each key value is kept
RECURSIVE RemoveDuplicatesFrom(_, _, _, _)
RemoveDuplicatesFrom(lst, key, n, new_lst) ==
    IF n > Len(lst) THEN new_lst
    ELSE RemoveDuplicatesFrom(lst, key, n + 1,
             IF \E m \in 1..Len(new_lst) : new_lst[m][key] = lst[n][key]
             THEN new_lst
             ELSE Append(new_lst, lst[n]))

remove_duplicates_by_key(lst, key) == RemoveDuplicatesFrom(lst, key, 1, <<>>)

\* the comparison with ">=" in the place of ">"
ExceedsOrReachesGap(a, b, gap_interval) == (b - a) >= gap_interval

\* the comparison "(b - a) > gap_interval" of both gap scans
ExceedsGap(a, b, gap_interval) == (b - a) > gap_interval

\* the "find gaps" loop of data.py find_gaps from the n-th element on; a gap that
\* starts where the last reported gap ended extends that gap
RECURSIVE FindGapsLoop(_, _, _, _, _, _, _)
FindGapsLoop(lst, dt_key, dt_to, gap_interval, n, last, gaps) ==
    IF n > Len(lst)
    THEN IF ExceedsGap(last, dt_to, gap_interval)
         THEN Append(gaps, [from |-> last, to |-> dt_to])
         ELSE gaps
    ELSE LET dt == lst[n][dt_key]
             gaps2 == IF ExceedsGap(last, dt, gap_interval)
                      THEN IF Len(gaps) > 0 /\ gaps[Len(gaps)].to = last
                           THEN [gaps EXCEPT ![Len(gaps)].to = dt]
                           ELSE Append(gaps, [from |-> last, to |-> dt])
                      ELSE gaps
         IN  FindGapsLoop(lst, dt_key, dt_to, gap_interval, n + 1, dt, gaps2)

\* data.py find_gaps: (filtered series, gaps)
find_gaps(lst, dt_from, dt_to, gap_interval, dt_key) ==
    LET filtered == remove_duplicates_by_key(
                        sort_by_key(filter_by_key_in_range(lst, dt_key, dt_from, dt_to),
                                    dt_key),
                        dt_key)
    IN  [lst |-> filtered,
         gaps |-> FindGapsLoop(filtered, dt_key, dt_to, gap_interval, 1, dt_from, <<>>)]

\* i.get("delta_h", 0)
DeltaH(i) == IF "delta_h" \in DOMAIN i THEN i["delta_h"] ELSE 0

\* the loop of utils.extract_dt_ranges over the sorted list from the n-th element
\* on: the cursor last_dt moves to datetime + delta_h of each element it keeps
RECURSIVE ExtractLoop(_, _, _, _, _, _, _, _)
ExtractLoop(sorted_lst, dt_from, dt_to, gap_interval, n, last_dt, new_lst, missing) ==
    IF n > Len(sorted_lst)
    THEN [lst |-> new_lst,
          missing |-> IF dt_to > last_dt
                      THEN Append(missing, [from |-> last_dt, to |-> dt_to])
                      ELSE missing]
    ELSE LET i == sorted_lst[n]
             dt == i["datetime"]
         IN  IF dt_from <= dt /\ dt <= dt_to
             THEN LET missing2 == IF ExceedsGap(last_dt, dt, gap_interval)
                                  THEN Append(missing, [from |-> last_dt, to |-> dt])
                                  ELSE missing
                  IN  IF dt # last_dt
                      THEN ExtractLoop(sorted_lst, dt_from, dt_to, gap_interval, n + 1,
                                       dt + DeltaH(i), Append(new_lst, i), missing2)
                      ELSE ExtractLoop(sorted_lst, dt_from, dt_to, gap_interval, n + 1,
                                       last_dt, new_lst, missing2)
             ELSE ExtractLoop(sorted_lst, dt_from, dt_to, gap_interval, n + 1,
                              last_dt, new_lst, missing)

\* utils.extract_dt_ranges: (new_lst, missing)
extract_dt_ranges(lst, dt_from, dt_to, gap_interval) ==
    IF Len(lst) > 0
    THEN ExtractLoop(sort_by_key(lst, "datetime"), dt_from, dt_to, gap_interval,
                     1, dt_from, <<>>, <<>>)
    ELSE [lst |-> <<>>, missing |-> <<[from |-> dt_from, to |-> dt_to]>>]

\* the key values of a list of records
KeysOf(lst, key) == {lst[j][key] : j \in 1..Len(lst)}

\* utils.get_by_key(lst, key, value): the first element with that key value; the
\* model returns its index, 0 for None
get_by_key(lst, key, value) == FirstMatch(lst, key, value)

\* ------------------------------------------------- helpers.py: EdataHelper

UPDATE_INTERVAL == 1          \* timedelta(hours=1)
ConsGapInterval == 6          \* sort_and_filter: timedelta(hours=6)
MaximGapInterval == 1440      \* sort_and_filter: timedelta(days=60)
MonthHours == 720             \* relativedelta(months=1), taken as 30 days
HoursPerDay == 24
Epoch == 0                    \* datetime(1970, 1, 1)

\* .date() of a datetime
Day(t) == t \div HoursPerDay

Max2(a, b) == IF a >= b THEN a ELSE b
Min2(a, b) == IF a <= b THEN a ELSE b

\* ------------------------------------------------- the calendar

\* the calendar of the check: December to March of a year that is not a leap
\* year; a date is the number of its day, 1 for the first of December
MonthLengths == <<31, 31, 28, 31>>

RECURSIVE DaysBefore(_)
DaysBefore(month) == IF month = 1 THEN 0 ELSE DaysBefore(month - 1) + MonthLengths[month - 1]

\* date(year, month, day)
DayNumber(month, day) == DaysBefore(month) + day

\* .month and .day of a date
MonthOfDate(date) ==
    CHOOSE m \in 1..Len(MonthLengths) :
        DaysBefore(m) < date /\ date <= DaysBefore(m) + MonthLengths[m]
DayOfDate(date) == date - DaysBefore(MonthOfDate(date))

\* .replace(day=1)
FirstOfMonth(date) == DayNumber(MonthOfDate(date), 1)

\* .replace(hour=0, minute=0, second=0) of a datetime in hours, as a date
DateOf(a_datetime) == (a_datetime \div HoursPerDay) + 1

\* datetime(year, month, day, hour)
DateTime(month, day, hour) == (DayNumber(month, day) - 1) * HoursPerDay + hour

\* ------------------------------------------------- processors/utils.py: get_pvpc_tariff

HOURS_P1 == {10, 11, 12, 13, 18, 19, 20, 21}
HOURS_P2 == {8, 9, 14, 15, 16, 17, 22, 23}

\* a variant of WEEKDAYS_P3 without the Saturday
WEEKDAYS_P3_sunday == {6}

WEEKDAYS_P3 == {5, 6}

\* get_pvpc_tariff(a_datetime), for the weekday and hour of a_datetime and
\* whether its date is in holidays.country_holidays("ES")
get_pvpc_tariff(weekday, hour, holiday) ==
    IF weekday \in WEEKDAYS_P3 \/ holiday THEN "p3"
    ELSE IF hour \in HOURS_P1 THEN "p1"
    ELSE IF hour \in HOURS_P2 THEN "p2"
    ELSE "p3"

\* the first of December is a Thursday, and the sixth of January a public holiday
WeekdayOfDate(date) == (date + 2) % 7
Holidays == {DayNumber(2, 6)}

\* utils.get_pvpc_tariff of a datetime in hours
TariffOf(a_datetime) ==
    get_pvpc_tariff(WeekdayOfDate(DateOf(a_datetime)), a_datetime % HoursPerDay,
                    DateOf(a_datetime) \in Holidays)

\* ------------------------------------------------- processors/consumption.py: do_process

\* a variant of the cycle offset that shifts by cycle_start_day days
CycleOffsetWhole(cycle_start_day) == cycle_start_day

\* self._cycle_offset
CycleOffset(cycle_start_day) == cycle_start_day - 1

\* curr_month_dt of a consumption
BillingMonth(a_datetime, cycle_start_day) ==
    FirstOfMonth(DateOf(a_datetime) - CycleOffset(cycle_start_day))

\* a variant of the match statement without the case for p2
ByTariffTwo(tariff, amount) ==
    <<IF tariff = "p1" THEN amount ELSE 0, 0, IF tariff = "p3" THEN amount ELSE 0>>

\* kwh_by_tariff and surplus_kwh_by_tariff after the match statement
ByTariff(tariff, amount) ==
    <<IF tariff = "p1" THEN amount ELSE 0,
      IF tariff = "p2" THEN amount ELSE 0,
      IF tariff = "p3" THEN amount ELSE 0>>

\* appends the consumption to the buckets: a new bucket when key differs from
\* the key of the last consumption, otherwise added to the last bucket
AddToBuckets(buckets, first, key, last_key, consumption) ==
    LET kwh == consumption.value_kWh
        surplus_kwh == consumption.surplus_kWh
        delta_h == consumption.delta_h
        kwh_by_tariff == ByTariff(TariffOf(consumption.datetime), kwh)
        surplus_kwh_by_tariff == ByTariff(TariffOf(consumption.datetime), surplus_kwh)
    IN  IF first \/ key # last_key
        THEN Append(buckets,
                    [datetime |-> key, value_kWh |-> kwh, delta_h |-> delta_h,
                     value_p1_kWh |-> kwh_by_tariff[1],
                     value_p2_kWh |-> kwh_by_tariff[2],
                     value_p3_kWh |-> kwh_by_tariff[3],
                     surplus_kWh |-> surplus_kwh,
                     surplus_p1_kWh |-> surplus_kwh_by_tariff[1],
                     surplus_p2_kWh |-> surplus_kwh_by_tariff[2],
                     surplus_p3_kWh |-> surplus_kwh_by_tariff[3]])
        ELSE [buckets EXCEPT ![Len(buckets)] =
                 [datetime |-> @.datetime,
                  value_kWh |-> @.value_kWh + kwh,
                  delta_h |-> @.delta_h + delta_h,
                  value_p1_kWh |-> @.value_p1_kWh + kwh_by_tariff[1],
                  value_p2_kWh |-> @.value_p2_kWh + kwh_by_tariff[2],
                  value_p3_kWh |-> @.value_p3_kWh + kwh_by_tariff[3],
                  surplus_kWh |-> @.surplus_kWh + surplus_kwh,
                  surplus_p1_kWh |-> @.surplus_p1_kWh + surplus_kwh_by_tariff[1],
                  surplus_p2_kWh |-> @.surplus_p2_kWh + surplus_kwh_by_tariff[2],
                  surplus_p3_kWh |-> @.surplus_p3_kWh + surplus_kwh_by_tariff[3]]]

\* the loop of ConsumptionProcessor.do_process from the n-th consumption on
RECURSIVE ConsumptionLoop(_, _, _, _, _, _, _)
ConsumptionLoop(consumptions, cycle_start_day, n, daily, monthly, last_day_dt, last_month_dt) ==
    IF n > Len(consumptions) THEN [daily |-> daily, monthly |-> monthly]
    ELSE LET consumption == consumptions[n]
             curr_day_dt == DateOf(consumption.datetime)
             curr_month_dt == BillingMonth(consumption.datetime, cycle_start_day)
         IN  ConsumptionLoop(consumptions, cycle_start_day, n + 1,
                             AddToBuckets(daily, n = 1, curr_day_dt, last_day_dt, consumption),
                             AddToBuckets(monthly, n = 1, curr_month_dt, last_month_dt,
                                          consumption),
                             curr_day_dt, curr_month_dt)

\* ConsumptionProcessor.do_process, before the final rounding
ConsumptionProcessor(consumptions, cycle_start_day) ==
    ConsumptionLoop(consumptions, cycle_start_day, 1, <<>>, <<>>, 0, 0)

\* what a caller hands to the constructor: a dictionary with the series under
\* "consumptions", or the series itself
AsDict(consumptions, cycle_start_day) ==
    [is_dict |-> TRUE, consumptions |-> consumptions, cycle_start_day |-> cycle_start_day]
AsList(consumptions) ==
    [is_dict |-> FALSE, consumptions |-> consumptions, cycle_start_day |-> 1]

\* the schema of do_process is a dictionary: it raises on anything else
SchemaAccepts(input) == input.is_dict

\* ConsumptionProcessor(input): Processor.__init__ runs do_process
NewConsumptionProcessor(input) ==
    IF ~SchemaAccepts(input)
    THEN [raised |-> TRUE, daily |-> <<>>, monthly |-> <<>>]
    ELSE LET out == ConsumptionProcessor(input.consumptions, input.cycle_start_day)
         IN  [raised |-> FALSE, daily |-> out.daily, monthly |-> out.monthly]

\* EdataHelper.process_consumptions: the aggregates it leaves in self.data
process_consumptions(consumptions, daily_sum, monthly_sum) ==
    IF Len(consumptions) > 0
    THEN LET proc == NewConsumptionProcessor(AsList(consumptions))
         IN  IF proc.raised
             THEN [raised |-> TRUE, daily |-> daily_sum, monthly |-> monthly_sum]
             ELSE [raised |-> FALSE, daily |-> proc.daily, monthly |-> proc.monthly]
    ELSE [raised |-> FALSE, daily |-> daily_sum, monthly |-> monthly_sum]

\* ------------------------------------------------- helpers.py: EdataHelper, its data

\* the instants of the helper's data: the first hours of the day after the
\* epoch, and one hour more than ConsGapInterval after them
DataStart == HoursPerDay
HTimes == {DataStart + h : h \in 0..MaxH} \cup {DataStart + MaxH + ConsGapInterval + 1}

\* the clock starts the day after the data
FirstNow == 2 * HoursPerDay

Cups == "CUPS"                \* self._cups

\* what the connector may answer: it returns a list or raises (a requests
\* exception other than Timeout passes through DatadisConnector._get)
Raised == [raised |-> TRUE, lst |-> <<>>]
Returned(lst) == [raised |-> FALSE, lst |-> lst]

SupplyReplies ==
    {Raised, Returned(<<>>)}
    \cup {Returned(<<[cups |-> Cups, date_start |-> t]>>) : t \in HTimes}
    \cup {Returned(<<[cups |-> "OTHER", date_start |-> DataStart]>>)}

ContractRecords ==
    {r \in [date_start : HTimes, date_end : HTimes] : r.date_start <= r.date_end}

\* contract lists in ascending order, one contract ending before the next starts
ContractReplies ==
    {Raised}
    \cup {Returned(l) : l \in {m \in SeqUpTo(ContractRecords, MaxContracts) :
                                \A n \in 1..(Len(m) - 1) : m[n].date_end < m[n + 1].date_start}}

\* one record for every hour of [start_date, end_date]
HourlyData(start_date, end_date) ==
    [n \in 1..(end_date - start_date + 1) |->
        [datetime |-> start_date + n - 1, delta_h |-> 1, value_kWh |-> 1]]

\* get_consumption_data keeps the records with start_date <= datetime <= end_date
\* and gives each delta_h = 1
ConsumptionReplies(start_date, end_date) ==
    {Raised, Returned(HourlyData(start_date, end_date))}
    \cup {Returned(l) : l \in SeqUpTo({[datetime |-> t, delta_h |-> 1, value_kWh |-> 1] :
                                          t \in {u \in HTimes : start_date <= u /\ u <= end_date}},
                                      MaxBatch)}

\* get_max_power does not filter by the requested range
MaxPowerReplies ==
    {Raised}
    \cup {Returned(l) : l \in SeqUpTo({[datetime |-> t, value_kW |-> 1] : t \in HTimes},
                                      MaxBatchMaxim)}

\* the state after DatadisConnector.__init__ when no cache file exists
InitConn ==
    /\ recent_queries = <<>>
    /\ recent_cache = <<>>
    /\ answers = <<>>
    /\ last_http = <<>>
    /\ gets = 0

MaxWorkers == 2               \* async_update calls in flight on one helper

Workers == 1..MaxWorkers

\* a thread of the executor that runs nothing
IdleWorker == [pc |-> "idle", date_from |-> 0, date_to |-> 0, todo |-> <<>>, merged |-> <<>>]

\* no async_update has been called
InitAsync == workers = [w \in Workers |-> IdleWorker]

\* no processor has been called
NoArgs == [op |-> "none"]

\* EdataHelper.__init__ with data=None: no aggregates
InitDerived ==
    /\ data_consumptions_daily_sum = <<>>
    /\ data_consumptions_monthly_sum = <<>>

InitOther == InitConn /\ InitAsync /\ InitDerived /\ args = NoArgs

\* the state after EdataHelper.__init__ with data=None
InitHelper ==
    /\ pc = "idle"
    /\ now = FirstNow
    /\ ticks = 0
    /\ updates = 0
    /\ date_from = DataStart
    /\ date_to = DataStart
    /\ data_supplies = <<>>
    /\ data_contracts = <<>>
    /\ data_consumptions = <<>>
    /\ data_maximeter = <<>>
    /\ last_update = [supplies |-> Epoch, contracts |-> Epoch,
                      consumptions |-> Epoch, maximeter |-> Epoch]
    /\ miss_cons = <<>>
    /\ miss_maxim = <<>>
    /\ todo = <<>>
    /\ result = "none"
    /\ passes = 0
    /\ scan_miss = <<>>
    /\ requests = <<>>
    /\ reconciled = {}

\* the oldest date_start of the contracts, datetime.today() when there is none older
RECURSIVE OldestContract(_, _, _)
OldestContract(contracts, n, oldest) ==
    IF n > Len(contracts) THEN oldest
    ELSE OldestContract(contracts, n + 1,
                        IF contracts[n].date_start < oldest THEN contracts[n].date_start
                        ELSE oldest)

\* update_datadis: the update_consumptions calls of one contract, one for each
\* consumption gap that touches the contract
ConsumptionFetches(contract, gaps) ==
    LET touching == SelectSeq(gaps, LAMBDA x :
                        ~(x.to < contract.date_start \/ x.from > contract.date_end))
    IN  [n \in 1..Len(touching) |->
            [kind |-> "consumptions",
             start |-> Max2(touching[n].from, contract.date_start),
             end |-> Min2(touching[n].to, contract.date_end)]]

\* update_datadis: the update_maximeter calls of one contract: the loop runs over
\* miss_cons, and its filter compares the window, not the gap, with the contract
MaximeterFetches(contract, gaps, dt_from, dt_to) ==
    LET touching == SelectSeq(gaps, LAMBDA x :
                        ~(dt_to < contract.date_start \/ dt_from > contract.date_end))
    IN  [n \in 1..Len(touching) |->
            LET end == Min2(touching[n].to, contract.date_end)
                start == Max2(touching[n].from, contract.date_start + MonthHours)
            IN  [kind |-> "maximeter", start |-> Min2(start, end), end |-> end]]

\* the fetches of the loop over self.data["contracts"], in the order of the code
RECURSIVE ContractLoop(_, _, _, _, _)
ContractLoop(contracts, gaps, dt_from, dt_to, n) ==
    IF n > Len(contracts) THEN <<>>
    ELSE ConsumptionFetches(contracts[n], gaps)
         \o MaximeterFetches(contracts[n], gaps, dt_from, dt_to)
         \o ContractLoop(contracts, gaps, dt_from, dt_to, n + 1)

\* "safe check periods in non-registered contracts"
HasOrphanPeriod(oldest_contract, supply_date_start, dt_from) ==
    oldest_contract # supply_date_start
    /\ oldest_contract > Max2(dt_from, supply_date_start)

OrphanFetches(oldest_contract, supply_date_start, dt_from) ==
    IF HasOrphanPeriod(oldest_contract, supply_date_start, dt_from)
    THEN LET start == Max2(supply_date_start, dt_from)
         IN  <<[kind |-> "consumptions", start |-> start, end |-> oldest_contract],
               [kind |-> "maximeter", start |-> start, end |-> oldest_contract]>>
    ELSE <<>>

\* the start of the window of the last sort_and_filter of update_datadis
RescanFrom(oldest_contract, supply_date_start, dt_from) ==
    IF HasOrphanPeriod(oldest_contract, supply_date_start, dt_from)
    THEN Max2(supply_date_start, dt_from)
    ELSE Max2(dt_from, oldest_contract)

\* the supply of self._cups
SupplyDateStart == data_supplies[get_by_key(data_supplies, "cups", Cups)].date_start

\* EdataHelper.update: clears what the model records about the call and enters
\* update_datadis
Update ==
    /\ pc \in {"idle", "done", "raised"}
    /\ updates < MaxUpdates
    /\ \E dt_from \in HTimes : \E dt_to \in {t \in HTimes : t >= dt_from} :
           /\ date_from' = dt_from
           /\ date_to' = dt_to
    /\ updates' = updates + 1
    /\ passes' = 1
    /\ pc' = "update_supplies"
    /\ result' = "none"
    /\ miss_cons' = <<>>
    /\ miss_maxim' = <<>>
    /\ scan_miss' = <<>>
    /\ requests' = <<>>
    /\ reconciled' = {}
    /\ todo' = <<>>
    /\ UNCHANGED <<argVars, ret, otherVars, now, ticks, data_supplies, data_contracts,
                   data_consumptions, data_maximeter, last_update>>

\* update_datadis up to the lookup of the cups: update_supplies, and the two
\* early returns
UpdateSupplies ==
    /\ pc = "update_supplies"
    /\ \E reply \in SupplyReplies :
          LET asked == Day(now) # Day(last_update.supplies)
              got == asked /\ ~reply.raised /\ Len(reply.lst) > 0
              supplies == IF got THEN reply.lst ELSE data_supplies
          IN  /\ data_supplies' = supplies
              /\ last_update' = IF got THEN [last_update EXCEPT !.supplies = now]
                                ELSE last_update
              /\ IF asked /\ reply.raised
                 THEN pc' = "raised" /\ result' = result
                 ELSE IF Len(supplies) = 0 \/ get_by_key(supplies, "cups", Cups) = 0
                 THEN pc' = "process_data" /\ result' = FALSE
                 ELSE pc' = "update_contracts" /\ result' = result
    /\ UNCHANGED <<argVars, ret, otherVars, now, ticks, updates, date_from, date_to, data_contracts,
                   data_consumptions, data_maximeter, miss_cons, miss_maxim, todo,
                   passes, scan_miss, requests, reconciled>>

\* update_datadis from update_contracts to the start of the loop over the
\* contracts: the early return, sort_and_filter(date_from, date_to), and the
\* fetches the loops and the orphan period will ask for
UpdateContracts ==
    /\ pc = "update_contracts"
    /\ \E reply \in ContractReplies :
          LET asked == Day(now) # Day(last_update.contracts)
              got == asked /\ ~reply.raised /\ Len(reply.lst) > 0
              merged == extend_by_key(data_contracts, reply.lst, "date_start")
              contracts == IF got THEN merged.lst ELSE data_contracts
              cons == extract_dt_ranges(data_consumptions, date_from, date_to, ConsGapInterval)
              maxim == extract_dt_ranges(data_maximeter, date_from, date_to, MaximGapInterval)
              oldest_contract == OldestContract(contracts, 1, now)
          IN  IF asked /\ (reply.raised \/ (got /\ merged.raised))
              THEN /\ pc' = "raised"
                   /\ UNCHANGED <<data_contracts, data_consumptions, data_maximeter,
                                  last_update, miss_cons, miss_maxim, todo, result, scan_miss>>
              ELSE /\ data_contracts' = contracts
                   /\ last_update' = IF got THEN [last_update EXCEPT !.contracts = now]
                                     ELSE last_update
                   /\ IF Len(contracts) = 0
                      THEN /\ pc' = "process_data"
                           /\ result' = FALSE
                           /\ UNCHANGED <<data_consumptions, data_maximeter, miss_cons,
                                          miss_maxim, todo, scan_miss>>
                      ELSE /\ pc' = "fetching"
                           /\ result' = result
                           /\ data_consumptions' = cons.lst
                           /\ data_maximeter' = maxim.lst
                           /\ miss_cons' = cons.missing
                           /\ miss_maxim' = maxim.missing
                           /\ scan_miss' = cons.missing
                           /\ todo' = ContractLoop(contracts, cons.missing, date_from, date_to, 1)
                                      \o OrphanFetches(oldest_contract, SupplyDateStart, date_from)
    /\ UNCHANGED <<argVars, ret, otherVars, now, ticks, updates, date_from, date_to, data_supplies,
                   passes, requests, reconciled>>

\* a variant of the test of update_consumptions that lets every call through
IntervalElapsedAlways(last) == now >= last

\* the test of update_consumptions: more than UPDATE_INTERVAL has passed since
\* the last fetch that returned records
IntervalElapsed(last) == (now - last) > UPDATE_INTERVAL

\* update_consumptions(cups, distributor_code, start_date, end_date, "0", point_type)
UpdateConsumptions ==
    /\ pc = "fetching"
    /\ todo # <<>>
    /\ Head(todo).kind = "consumptions"
    /\ IF IntervalElapsed(last_update.consumptions)
       THEN \E reply \in ConsumptionReplies(Head(todo).start, Head(todo).end) :
               LET merged == extend_by_key(data_consumptions, reply.lst, "datetime")
                   got == ~reply.raised /\ Len(reply.lst) > 0
                   complete == ~reply.raised
                               /\ KeysOf(reply.lst, "datetime") = Head(todo).start..Head(todo).end
               IN  /\ requests' = Append(requests, Head(todo) @@ [complete |-> complete])
                   /\ IF reply.raised \/ (got /\ merged.raised)
                      THEN /\ pc' = "raised"
                           /\ UNCHANGED <<data_consumptions, last_update, reconciled>>
                      ELSE /\ pc' = pc
                           /\ data_consumptions' = IF got THEN merged.lst ELSE data_consumptions
                           /\ last_update' = IF got
                                             THEN [last_update EXCEPT !.consumptions = now]
                                             ELSE last_update
                           /\ reconciled' = IF got
                                            THEN reconciled \cup KeysOf(reply.lst, "datetime")
                                            ELSE reconciled
       ELSE UNCHANGED <<pc, requests, data_consumptions, last_update, reconciled>>
    /\ todo' = Tail(todo)
    /\ UNCHANGED <<argVars, ret, otherVars, now, ticks, updates, date_from, date_to, data_supplies,
                   data_contracts, data_maximeter, miss_cons, miss_maxim, result, passes,
                   scan_miss>>

\* update_maximeter(cups, distributor_code, start_date, end_date)
UpdateMaximeter ==
    /\ pc = "fetching"
    /\ todo # <<>>
    /\ Head(todo).kind = "maximeter"
    /\ IF (now - last_update.maximeter) > UPDATE_INTERVAL
       THEN \E reply \in MaxPowerReplies :
               LET merged == extend_by_key(data_maximeter, reply.lst, "datetime")
                   got == ~reply.raised /\ Len(reply.lst) > 0
               IN  /\ requests' = Append(requests, Head(todo))
                   /\ IF reply.raised \/ (got /\ merged.raised)
                      THEN /\ pc' = "raised"
                           /\ UNCHANGED <<data_maximeter, last_update>>
                      ELSE /\ pc' = pc
                           /\ data_maximeter' = IF got THEN merged.lst ELSE data_maximeter
                           /\ last_update' = IF got
                                             THEN [last_update EXCEPT !.maximeter = now]
                                             ELSE last_update
       ELSE UNCHANGED <<pc, requests, data_maximeter, last_update>>
    /\ todo' = Tail(todo)
    /\ UNCHANGED <<argVars, ret, otherVars, now, ticks, updates, date_from, date_to, data_supplies,
                   data_contracts, data_consumptions, miss_cons, miss_maxim, result, passes,
                   scan_miss, reconciled>>

\* the end of update_datadis: the last sort_and_filter, whose gaps are dropped,
\* and "return True"
Rescan ==
    /\ pc = "fetching"
    /\ todo = <<>>
    /\ LET dt_from == RescanFrom(OldestContract(data_contracts, 1, now), SupplyDateStart,
                                 date_from)
           cons == extract_dt_ranges(data_consumptions, dt_from, date_to, ConsGapInterval)
           maxim == extract_dt_ranges(data_maximeter, dt_from, date_to, MaximGapInterval)
       IN  /\ data_consumptions' = cons.lst
           /\ data_maximeter' = maxim.lst
           /\ miss_cons' = cons.missing
           /\ miss_maxim' = maxim.missing
    /\ result' = TRUE
    /\ pc' = "process_data"
    /\ UNCHANGED <<argVars, ret, otherVars, now, ticks, updates, date_from, date_to, data_supplies,
                   data_contracts, last_update, todo, passes, scan_miss, requests, reconciled>>

\* the rest of EdataHelper.update for a helper without pricing rules (is_pvpc is
\* False): process_data, which writes only derived aggregates and attributes;
\* update returns, and the arguments and locals of the call are gone
ProcessData ==
    /\ pc = "process_data"
    /\ pc' = "done"
    /\ date_from' = DataStart
    /\ date_to' = DataStart
    /\ miss_cons' = <<>>
    /\ miss_maxim' = <<>>
    /\ result' = "none"
    /\ passes' = 0
    /\ scan_miss' = <<>>
    /\ requests' = <<>>
    /\ reconciled' = {}
    /\ LET derived == process_consumptions(data_consumptions, data_consumptions_daily_sum,
                                           data_consumptions_monthly_sum)
       IN  /\ data_consumptions_daily_sum' = derived.daily
           /\ data_consumptions_monthly_sum' = derived.monthly
    /\ UNCHANGED <<argVars, ret, connVars, asyncVars, procVars, now, ticks, updates,
                   data_supplies, data_contracts, data_consumptions, data_maximeter,
                   last_update, todo>>

\* an hour passes between two update calls (a call is taken to be short against
\* the hour of UPDATE_INTERVAL)
Tick ==
    /\ pc \in {"idle", "done", "raised"}
    /\ ticks < MaxTicks
    /\ ticks' = ticks + 1
    /\ now' = now + 1
    /\ UNCHANGED <<argVars, ret, otherVars, pc, updates, date_from, date_to, data_supplies,
                   data_contracts, data_consumptions, data_maximeter, last_update,
                   miss_cons, miss_maxim, todo, result, passes, scan_miss, requests,
                   reconciled>>

Init ==
    /\ arg_lst = <<>>
    /\ arg_new = <<>>
    /\ arg_from = 0
    /\ arg_to = 0
    /\ arg_gap = 0
    /\ ret = [op |-> "none"]
    /\ InitHelper
    /\ InitOther

Next ==
    \/ Update
    \/ UpdateSupplies
    \/ UpdateContracts
    \/ UpdateConsumptions
    \/ UpdateMaximeter
    \/ Rescan
    \/ ProcessData
    \/ Tick

Spec == Init /\ [][Next]_vars

\* ------------------------------------------------- function-level check: reconcile

\* records of the reconcile checks: datetime and value_kWh, surplus_kWh optional
ReconcileRecords ==
    {[datetime |-> t, value_kWh |-> v] : t \in 0..MaxKey, v \in 1..MaxKWh}
    \cup {[datetime |-> t, value_kWh |-> v, surplus_kWh |-> 0] : t \in 0..MaxKey, v \in 1..MaxKWh}

NoCall == [op |-> "none"]

InitExtend ==
    /\ arg_lst \in SeqUpTo(ReconcileRecords, MaxOld)
    /\ arg_new \in SeqUpTo(ReconcileRecords, MaxNew)
    /\ arg_from = 0
    /\ arg_to = 0
    /\ arg_gap = 0
    /\ ret = NoCall
    /\ InitHelper
    /\ InitOther

\* S1 = extend_by_key(S, A, "datetime")
CallExtend ==
    /\ ret.op = "none"
    /\ LET r == extend_by_key(arg_lst, arg_new, "datetime")
       IN  ret' = [op |-> "extend", raised |-> r.raised, lst |-> r.lst]
    /\ UNCHANGED <<argVars, helperVars, otherVars>>

\* S2 = extend_by_key(S1, A, "datetime"), S1 kept for comparison
CallExtendAgain ==
    /\ ret.op = "extend"
    /\ ~ret.raised
    /\ LET r == extend_by_key(ret.lst, arg_new, "datetime")
       IN  ret' = [op |-> "extend2", raised |-> r.raised, lst |-> r.lst, once |-> ret.lst]
    /\ UNCHANGED <<argVars, helperVars, otherVars>>

\* add_or_update(S, A, "datetime") of data.py
CallAddOrUpdate ==
    /\ ret.op = "none"
    /\ LET r == add_or_update(arg_lst, arg_new, "datetime")
       IN  ret' = [op |-> "add_or_update", raised |-> r.raised, lst |-> r.lst]
    /\ UNCHANGED <<argVars, helperVars, otherVars>>

NextExtend == CallExtend \/ CallExtendAgain \/ CallAddOrUpdate

SpecExtend == InitExtend /\ [][NextExtend]_vars

\* n is the last position of lst that carries its key value
IsLastOfKey(lst, key, n) == \A m \in (n + 1)..Len(lst) : lst[m][key] # lst[n][key]

\* C1: reconcile is idempotent: whenever extend_by_key(S, A, k) returned S1, the
\* call extend_by_key(S1, A, k) returns a list equal to S1, for every series S
\* and batch A, batches that repeat a key or bring keys absent from S included.
C1_Idempotent ==
    ret.op = "extend2" => (~ret.raised /\ ret.lst = ret.once)

\* C2: incoming wins: after extend_by_key(S, A, k) returned, the record of the
\* result at the place of the S record with the key of an incoming record a (the
\* last of A with that key) is exactly a, with all of a's fields; the result
\* is S's records followed by the records of A whose key S did not have, and
\* the records of S whose key A does not bring are unchanged.
C2_IncomingWins ==
    (ret.op = "extend" /\ ~ret.raised) =>
        /\ \A n \in 1..Len(arg_new) :
              LET j == FirstMatch(arg_lst, "datetime", arg_new[n]["datetime"])
              IN  (j # 0 /\ IsLastOfKey(arg_new, "datetime", n)) =>
                      (j <= Len(ret.lst) /\ ret.lst[j] = arg_new[n])
        /\ ret.lst = SubSeq(ret.lst, 1, Len(arg_lst))
                     \o SelectSeq(arg_new,
                           LAMBDA a : a["datetime"] \notin KeysOf(arg_lst, "datetime"))
        /\ \A j \in 1..Len(arg_lst) :
              arg_lst[j]["datetime"] \notin KeysOf(arg_new, "datetime") =>
                      ret.lst[j] = arg_lst[j]

\* ------------------------------------------------- function-level check: gap scans

\* records of the gap scan checks: a datetime, with delta_h = 1 (a consumption
\* record) or without delta_h (a maximeter record)
GapRecords ==
    {[datetime |-> t] : t \in Times} \cup {[datetime |-> t, delta_h |-> 1] : t \in Times}

InitGaps ==
    /\ arg_lst \in SeqUpTo(GapRecords, MaxSeries)
    /\ arg_new = <<>>
    /\ arg_from \in Times
    /\ arg_to \in Times
    /\ arg_from <= arg_to
    /\ arg_gap \in 0..MaxGap
    /\ ret = NoCall
    /\ InitHelper
    /\ InitOther

CallFindGaps ==
    /\ ret.op = "none"
    /\ LET r == find_gaps(arg_lst, arg_from, arg_to, arg_gap, "datetime")
       IN  ret' = [op |-> "find_gaps", lst |-> r.lst, gaps |-> r.gaps]
    /\ UNCHANGED <<argVars, helperVars, otherVars>>

CallExtractDtRanges ==
    /\ ret.op = "none"
    /\ LET r == extract_dt_ranges(arg_lst, arg_from, arg_to, arg_gap)
       IN  ret' = [op |-> "extract_dt_ranges", lst |-> r.lst, gaps |-> r.missing]
    /\ UNCHANGED <<argVars, helperVars, otherVars>>

NextGaps == CallFindGaps \/ CallExtractDtRanges

SpecGaps == InitGaps /\ [][NextGaps]_vars

Abs(x) == IF x < 0 THEN -x ELSE x

\* C4: empty-series gap: find_gaps([], from, to, gap_interval) returns an empty
\* filtered series and exactly one gap, {from: from, to: to}, whatever the
\* gap_interval (also when it is at least to - from).
C4_EmptySeriesGap ==
    (ret.op = "find_gaps" /\ arg_lst = <<>>) =>
        (ret.lst = <<>> /\ ret.gaps = <<[from |-> arg_from, to |-> arg_to]>>)

\* C5: gap completeness: after find_gaps, every instant of [from, to] lies in a
\* returned gap or within gap_interval of the timestamp of a record of the
\* returned filtered series.
C5_GapCompleteness ==
    ret.op = "find_gaps" =>
        \A t \in arg_from..arg_to :
            \/ \E g \in 1..Len(ret.gaps) : ret.gaps[g].from <= t /\ t <= ret.gaps[g].to
            \/ \E n \in 1..Len(ret.lst) : Abs(t - ret.lst[n]["datetime"]) <= arg_gap

\* the sequence [from, t1, ..., tn, to] of a returned filtered series
BoundsOf(lst, dt_from, dt_to) ==
    <<dt_from>> \o [n \in 1..Len(lst) |-> lst[n]["datetime"]] \o <<dt_to>>

\* C6 as stated: every gap returned by find_gaps has from <= to and its bounds
\* are two consecutive elements of [from, t1, ..., tn, to]; gaps do not overlap
\* and none has the timestamp of a filtered record strictly inside.
C6_ConsecutiveBounds ==
    ret.op = "find_gaps" =>
        LET B == BoundsOf(ret.lst, arg_from, arg_to)
        IN  /\ \A g \in 1..Len(ret.gaps) :
                  /\ ret.gaps[g].from <= ret.gaps[g].to
                  /\ \E k \in 1..(Len(B) - 1) :
                         ret.gaps[g].from = B[k] /\ ret.gaps[g].to = B[k + 1]
                  /\ \A n \in 1..Len(ret.lst) :
                         ~(ret.gaps[g].from < ret.lst[n]["datetime"]
                           /\ ret.lst[n]["datetime"] < ret.gaps[g].to)
            /\ \A g \in 1..Len(ret.gaps) : \A h \in (g + 1)..Len(ret.gaps) :
                  ret.gaps[g].to <= ret.gaps[h].from

\* C6 amended: every gap returned by find_gaps has from < to, its bounds are two
\* elements B[k], B[m] (k < m) of [from, t1, ..., tn, to] such that every two
\* consecutive elements from B[k] to B[m] are more than gap_interval apart (the
\* contiguous gaps between records are merged into one gap), and the gaps are
\* in ascending order and do not overlap.
C6_GapShape ==
    ret.op = "find_gaps" =>
        LET B == BoundsOf(ret.lst, arg_from, arg_to)
        IN  /\ \A g \in 1..Len(ret.gaps) :
                  /\ ret.gaps[g].from < ret.gaps[g].to
                  /\ \E k \in 1..Len(B) : \E m \in (k + 1)..Len(B) :
                         /\ ret.gaps[g].from = B[k]
                         /\ ret.gaps[g].to = B[m]
                         /\ \A j \in k..(m - 1) : B[j + 1] - B[j] > arg_gap
            /\ \A g \in 1..Len(ret.gaps) : \A h \in (g + 1)..Len(ret.gaps) :
                  ret.gaps[g].to <= ret.gaps[h].from

\* a merged gap: find_gaps returned a gap with a filtered record strictly inside
\* and a second gap after it
C6_Witness ==
    /\ ret.op = "find_gaps"
    /\ Len(ret.gaps) = 2
    /\ \E n \in 1..Len(ret.lst) :
           ret.gaps[1].from < ret.lst[n]["datetime"]
           /\ ret.lst[n]["datetime"] < ret.gaps[1].to

\* C7: extract_dt_ranges loses no data: the returned series is sorted ascending,
\* holds exactly one record (of the input) for each distinct timestamp of the
\* input inside [dt_from, dt_to], and no record outside the window.
C7_NoDataLost ==
    ret.op = "extract_dt_ranges" =>
        /\ \A n \in 1..Len(ret.lst) : \A m \in (n + 1)..Len(ret.lst) :
               ret.lst[n]["datetime"] < ret.lst[m]["datetime"]
        /\ \A n \in 1..Len(ret.lst) : \E m \in 1..Len(arg_lst) : ret.lst[n] = arg_lst[m]
        /\ KeysOf(ret.lst, "datetime")
               = {t \in KeysOf(arg_lst, "datetime") : arg_from <= t /\ t <= arg_to}

\* ------------------------------------------------- claims about EdataHelper.update

\* update_datadis has ended: it returned (update goes on to process_data) or an
\* exception left it
CallEnded == pc \in {"process_data", "raised"}

\* C3: key uniqueness: starting from the empty series of a new helper, whatever
\* batches the update_consumptions calls reconcile with extend_by_key (a batch
\* may repeat a timestamp), no two records of self.data["consumptions"] have the
\* same datetime.
C3_UniqueTimestamps ==
    \A n \in 1..Len(data_consumptions) : \A m \in (n + 1)..Len(data_consumptions) :
        data_consumptions[n]["datetime"] # data_consumptions[m]["datetime"]

C11_EventualCompleteness ==
    (/\ pc = "process_data" /\ result = TRUE
     /\ Len(data_contracts) = 1
     /\ data_contracts[1].date_start = SupplyDateStart
     /\ date_from = data_contracts[1].date_start
     /\ date_to = data_contracts[1].date_end
     /\ \A r \in 1..Len(requests) :
            requests[r].kind = "consumptions" => requests[r].complete)
        => miss_cons = <<>>

\* C10: bounded retry: when update has finished with update_datadis, it has run
\* it twice exactly when the first run returned with consumption gaps left, and
\* never three times.
C10_RetryOnce ==
    pc = "process_data" =>
        /\ passes <= 2
        /\ (passes = 2) <=> (result = TRUE /\ miss_cons # <<>>)

\* C12: the status returned by update_datadis tells a fully reconciled window from
\* one with consumption gaps left: True, the status of a call whose last gap
\* scan found no gap, is not returned by a call whose last gap scan found one.
C12_StatusDistinguishes ==
    (pc = "process_data" /\ miss_cons # <<>>) => result # TRUE

\* C13: a supply list that is not empty and lacks the requested cups makes
\* update_datadis fail (NotFoundError) and not return as it does for an empty
\* supply list; in both cases the connector is asked for no consumptions and no
\* maximeter.
C13_NotFoundDistinct ==
    /\ ~(/\ pc = "process_data"
         /\ Len(data_supplies) > 0
         /\ get_by_key(data_supplies, "cups", Cups) = 0)
    /\ (CallEnded /\ (Len(data_supplies) = 0
                      \/ get_by_key(data_supplies, "cups", Cups) = 0))
           => requests = <<>>

\* ------------------------------------------------- connectors/datadis.py: _get

QUERY_LIMIT == 24             \* timedelta(hours=24)

MaxGets == 3                  \* _get calls made on one connector
MaxReplies == 3               \* answers of the server (token and GET) within one _get call
MaxSteps == 3                 \* advances of the connector's clock
StepHours == QUERY_LIMIT \div 2   \* one advance of the connector's clock, in hours

\* url + params of a query
Queries == {"q1", "q2"}

\* non-empty JSON bodies
Responses == {<<"a">>, <<"b">>}

\* what the server may answer to the GET: a 200 with a body, a 200 with an empty
\* body, 401, 429, another status, no answer in TIMEOUT seconds, another
\* requests exception
GetReplies ==
    {[kind |-> "200", body |-> r] : r \in Responses \cup {<<>>}}
    \cup {[kind |-> k] : k \in {"401", "429", "500", "timeout", "error"}}

\* the entries _update_recent_queries purges: older than QUERY_LIMIT
ToDelete(queries) == {x \in DOMAIN queries : (now - queries[x]) > QUERY_LIMIT}

\* _update_recent_queries(query, data): the new _recent_queries and _recent_cache
update_recent_queries(queries, cache, query, has_data, data) ==
    LET queries2 == [x \in DOMAIN queries \cup {query} |->
                        IF x = query THEN now ELSE queries[x]]
        cache2 == IF has_data
                  THEN [x \in DOMAIN cache \cup {query} |->
                           IF x = query THEN data ELSE cache[x]]
                  ELSE cache
        to_delete == ToDelete(queries2)
    IN  [queries |-> [x \in DOMAIN queries2 \ to_delete |-> queries2[x]],
         cache |-> [x \in DOMAIN cache2 \ to_delete |-> cache2[x]]]

\* a variant of _is_recent_query with the comparison turned around
is_recent_query_flipped(queries, query) ==
    IF query \in DOMAIN queries THEN (now - queries[query]) > QUERY_LIMIT ELSE FALSE

\* _is_recent_query(query)
is_recent_query(queries, query) ==
    IF query \in DOMAIN queries THEN (now - queries[query]) < QUERY_LIMIT ELSE FALSE

\* the result of a _get call: the response, whether an exception left the call,
\* the connector's maps, the number of HTTP GETs issued and the bodies recorded
GetResult(response, raised, queries, cache, http, got) ==
    [response |-> response, raised |-> raised, queries |-> queries, cache |-> cache,
     http |-> http, got |-> got]

\* DatadisConnector._get(url, request_data, refresh_token, is_retry,
\* ignore_recent_queries) for the query url + params: the results the call can
\* have when the server gives at most left answers (to the token POST, which
\* succeeds or not, and to the GETs)
RECURSIVE get(_, _, _, _, _, _, _, _)
get(query, refresh_token, is_retry, ignore_recent_queries, queries, cache, http, left) ==
    LET noted == update_recent_queries(queries, cache, query, FALSE, <<>>)
        Empty(q, c) == GetResult(<<>>, FALSE, q, c, http + 1, <<>>)
        Eval(reply, n) ==
            CASE reply.kind = "timeout" -> {Empty(queries, cache)}
              [] reply.kind = "error" ->
                   {GetResult(<<>>, TRUE, queries, cache, http + 1, <<>>)}
              [] reply.kind = "200" /\ reply.body # <<>> ->
                   LET cached == update_recent_queries(queries, cache, query,
                                                       TRUE, reply.body)
                   IN  {GetResult(reply.body, FALSE, cached.queries, cached.cache,
                                  http + 1, <<reply.body>>)}
              [] reply.kind = "200" /\ reply.body = <<>> ->
                   {Empty(noted.queries, noted.cache)}
              [] reply.kind = "401" /\ ~refresh_token ->
                   get(query, TRUE, FALSE, ignore_recent_queries, queries, cache,
                       http + 1, n)
              [] reply.kind = "429" -> {Empty(noted.queries, noted.cache)}
              [] reply.kind \in {"401", "500"} /\ ~(reply.kind = "401" /\ ~refresh_token)
                 /\ is_retry ->
                   {Empty(noted.queries, noted.cache)}
              [] OTHER ->
                   get(query, FALSE, TRUE, ignore_recent_queries, queries, cache,
                       http + 1, n)
        Query(n) ==
            IF ~ignore_recent_queries /\ is_recent_query(queries, query)
            THEN {GetResult(IF query \in DOMAIN cache THEN cache[query] ELSE <<>>,
                            FALSE, queries, cache, http, <<>>)}
            ELSE IF n = 0 THEN {}
            ELSE UNION {Eval(reply, n - 1) : reply \in GetReplies}
    IN  IF refresh_token
        THEN IF left = 0 THEN {}
             ELSE {GetResult(<<>>, FALSE, queries, cache, http, <<>>)} \cup Query(left - 1)
        ELSE Query(left)

\* a call of _get from outside: refresh_token and is_retry have their defaults
Get ==
    /\ gets < MaxGets
    /\ \E query \in Queries, ignore_recent_queries \in BOOLEAN :
          \E r \in get(query, FALSE, FALSE, ignore_recent_queries,
                       recent_queries, recent_cache, 0, MaxReplies) :
              /\ recent_queries' = r.queries
              /\ recent_cache' = r.cache
              /\ answers' = answers \o [n \in 1..Len(r.got) |->
                                           [query |-> query, at |-> now, response |-> r.got[n]]]
              /\ last_http' = IF r.http > 0
                              THEN [x \in DOMAIN last_http \cup {query} |->
                                       IF x = query THEN now ELSE last_http[x]]
                              ELSE last_http
              /\ ret' = [op |-> "_get", query |-> query, at |-> now,
                         ignore_recent_queries |-> ignore_recent_queries,
                         response |-> r.response, raised |-> r.raised, http |-> r.http,
                         answers |-> answers, last_http |-> last_http,
                         queries |-> recent_queries, cache |-> recent_cache]
    /\ gets' = gets + 1
    /\ UNCHANGED <<argVars, helperVars, asyncVars, procVars, derivedVars>>

\* time passes between two _get calls
Step ==
    /\ now < FirstNow + MaxSteps * StepHours
    /\ now' = now + StepHours
    /\ UNCHANGED <<argVars, ret, pc, ticks, updates, date_from, date_to, data_supplies,
                   data_contracts, data_consumptions, data_maximeter, last_update,
                   miss_cons, miss_maxim, todo, result, passes, scan_miss, requests,
                   reconciled, otherVars>>

NextConn == Get \/ Step

SpecConn == Init /\ [][NextConn]_vars

\* the last _get call was made with ignore_recent_queries false
SuppressibleGet == ret.op = "_get" /\ ~ret.ignore_recent_queries

\* the answers logged before the last _get call for its query that were less
\* than QUERY_LIMIT old when the call was made
FreshAnswers ==
    SelectSeq(ret.answers, LAMBDA a : a.query = ret.query /\ ret.at < a.at + QUERY_LIMIT)

\* C14 as stated: a query answered with a non-empty 200 at time t, made again
\* before t + 24h with ignore_recent_queries false, issues no HTTP request and
\* returns the response cached at time t; a query made in the last 24h that has
\* no cached response returns an empty list without an HTTP request.
C14_CachedAtT ==
    SuppressibleGet =>
        /\ \A n \in 1..Len(FreshAnswers) :
               ret.http = 0 /\ ret.response = FreshAnswers[n].response
        /\ (/\ ret.query \in DOMAIN ret.last_http
            /\ ret.at < ret.last_http[ret.query] + QUERY_LIMIT
            /\ ret.query \notin DOMAIN ret.cache)
               => (ret.http = 0 /\ ret.response = <<>>)

\* C14: query suppression: a query answered with a non-empty 200 at time t, made
\* again before t + 24h with ignore_recent_queries false, issues no HTTP request
\* and returns the response most recently cached for it (the one of time t
\* unless a later answer replaced it); a query recorded in _recent_queries less
\* than 24h ago that has no cached response returns an empty list without an
\* HTTP request.
C14_QuerySuppression ==
    SuppressibleGet =>
        /\ FreshAnswers # <<>> =>
               /\ ret.http = 0
               /\ ~ret.raised
               /\ ret.response = FreshAnswers[Len(FreshAnswers)].response
        /\ (/\ ret.query \in DOMAIN ret.queries
            /\ ret.at - ret.queries[ret.query] < QUERY_LIMIT
            /\ ret.query \notin DOMAIN ret.cache)
               => (ret.http = 0 /\ ~ret.raised /\ ret.response = <<>>)

\* a query answered earlier, at another time, is answered from the cache
C14_Witness ==
    /\ SuppressibleGet
    /\ FreshAnswers # <<>>
    /\ FreshAnswers[Len(FreshAnswers)].at < ret.at
    /\ ret.http = 0
    /\ ret.response # <<>>

\* ------------------------------------------------- helpers.py: async_update

\* the helper variables that belong to a synchronous update call
callVars == <<pc, ticks, updates, date_from, date_to, miss_cons, miss_maxim, todo, result,
              passes, scan_miss, requests>>

\* a helper that has loaded its supply and its contracts earlier today and
\* holds no consumptions yet; no thread is running
InitWorkers ==
    /\ arg_lst = <<>>
    /\ arg_new = <<>>
    /\ arg_from = 0
    /\ arg_to = 0
    /\ arg_gap = 0
    /\ ret = [op |-> "none"]
    /\ pc = "idle"
    /\ now = FirstNow
    /\ ticks = 0
    /\ updates = 0
    /\ date_from = DataStart
    /\ date_to = DataStart
    /\ data_supplies = <<[cups |-> Cups, date_start |-> DataStart]>>
    /\ data_contracts \in {r.lst : r \in {x \in ContractReplies : ~x.raised /\ Len(x.lst) > 0}}
    /\ data_consumptions = <<>>
    /\ data_maximeter = <<>>
    /\ last_update = [supplies |-> FirstNow, contracts |-> FirstNow,
                      consumptions |-> Epoch, maximeter |-> Epoch]
    /\ miss_cons = <<>>
    /\ miss_maxim = <<>>
    /\ todo = <<>>
    /\ result = "none"
    /\ passes = 0
    /\ scan_miss = <<>>
    /\ requests = <<>>
    /\ reconciled = {}
    /\ InitOther

\* async_update(date_from, date_to): run_in_executor(None, self.update, ...)
\* hands the call to a free thread of the default executor and returns
AsyncUpdate(w) ==
    /\ workers[w].pc = "idle"
    /\ \E dt_from \in HTimes : \E dt_to \in {t \in HTimes : t >= dt_from} :
           workers' = [workers EXCEPT ![w] = [pc |-> "scan", date_from |-> dt_from,
                                              date_to |-> dt_to, todo |-> <<>>,
                                              merged |-> <<>>]]
    /\ UNCHANGED <<argVars, ret, connVars, procVars, derivedVars, callVars, now, data_supplies,
                   data_contracts, data_consumptions, data_maximeter, last_update,
                   reconciled>>

\* thread w: update_datadis up to the loop over the contracts; supplies and
\* contracts were updated today, so update_supplies and update_contracts ask
\* nothing
WorkerScan(w) ==
    /\ workers[w].pc = "scan"
    /\ Day(now) = Day(last_update.supplies)
    /\ Day(now) = Day(last_update.contracts)
    /\ LET me == workers[w]
           cons == extract_dt_ranges(data_consumptions, me.date_from, me.date_to,
                                     ConsGapInterval)
           maxim == extract_dt_ranges(data_maximeter, me.date_from, me.date_to,
                                      MaximGapInterval)
           oldest_contract == OldestContract(data_contracts, 1, now)
       IN  /\ data_consumptions' = cons.lst
           /\ data_maximeter' = maxim.lst
           /\ workers' = [workers EXCEPT ![w].pc = "fetching",
                              ![w].todo = ContractLoop(data_contracts, cons.missing,
                                                       me.date_from, me.date_to, 1)
                                          \o OrphanFetches(oldest_contract, SupplyDateStart,
                                                           me.date_from)]
    /\ UNCHANGED <<argVars, ret, connVars, procVars, derivedVars, callVars, now, data_supplies,
                   data_contracts, last_update, reconciled>>

\* thread w: update_consumptions up to the call of extend_by_key, which copies
\* self.data["consumptions"] and merges the reply into the copy
WorkerFetch(w) ==
    /\ workers[w].pc = "fetching"
    /\ workers[w].todo # <<>>
    /\ Head(workers[w].todo).kind = "consumptions"
    /\ LET me == workers[w]
           skip == [workers EXCEPT ![w].todo = Tail(me.todo)]
       IN  IF (now - last_update.consumptions) > UPDATE_INTERVAL
           THEN \E reply \in ConsumptionReplies(Head(me.todo).start, Head(me.todo).end) :
                   LET merged == extend_by_key(data_consumptions, reply.lst, "datetime")
                   IN  workers' =
                           IF reply.raised \/ (Len(reply.lst) > 0 /\ merged.raised)
                           THEN [workers EXCEPT ![w].pc = "raised", ![w].todo = <<>>]
                           ELSE IF Len(reply.lst) > 0
                           THEN [workers EXCEPT ![w].pc = "write", ![w].merged = merged.lst]
                           ELSE skip
           ELSE workers' = skip
    /\ UNCHANGED <<argVars, ret, connVars, procVars, derivedVars, callVars, now, data_supplies,
                   data_contracts, data_consumptions, data_maximeter, last_update,
                   reconciled>>

\* thread w: the rest of update_consumptions: the merged copy is assigned to
\* self.data["consumptions"]
WorkerWrite(w) ==
    /\ workers[w].pc = "write"
    /\ data_consumptions' = workers[w].merged
    /\ last_update' = [last_update EXCEPT !.consumptions = now]
    /\ reconciled' = reconciled \cup KeysOf(workers[w].merged, "datetime")
    /\ workers' = [workers EXCEPT ![w].pc = "fetching", ![w].todo = Tail(workers[w].todo),
                                  ![w].merged = <<>>]
    /\ UNCHANGED <<argVars, ret, connVars, procVars, derivedVars, callVars, now, data_supplies,
                   data_contracts, data_maximeter>>

\* thread w: update_maximeter
WorkerMaximeter(w) ==
    /\ workers[w].pc = "fetching"
    /\ workers[w].todo # <<>>
    /\ Head(workers[w].todo).kind = "maximeter"
    /\ LET me == workers[w]
       IN  IF (now - last_update.maximeter) > UPDATE_INTERVAL
           THEN \E reply \in MaxPowerReplies :
                   LET merged == extend_by_key(data_maximeter, reply.lst, "datetime")
                       got == ~reply.raised /\ Len(reply.lst) > 0
                   IN  IF reply.raised \/ (got /\ merged.raised)
                       THEN /\ workers' = [workers EXCEPT ![w].pc = "raised",
                                                          ![w].todo = <<>>]
                            /\ UNCHANGED <<data_maximeter, last_update>>
                       ELSE /\ workers' = [workers EXCEPT ![w].todo = Tail(me.todo)]
                            /\ data_maximeter' = IF got THEN merged.lst ELSE data_maximeter
                            /\ last_update' = IF got
                                              THEN [last_update EXCEPT !.maximeter = now]
                                              ELSE last_update
           ELSE /\ workers' = [workers EXCEPT ![w].todo = Tail(me.todo)]
                /\ UNCHANGED <<data_maximeter, last_update>>
    /\ UNCHANGED <<argVars, ret, connVars, procVars, derivedVars, callVars, now, data_supplies,
                   data_contracts, data_consumptions, reconciled>>

\* thread w: the last sort_and_filter of update_datadis, and the rest of update
WorkerRescan(w) ==
    /\ workers[w].pc = "fetching"
    /\ workers[w].todo = <<>>
    /\ LET me == workers[w]
           dt_from == RescanFrom(OldestContract(data_contracts, 1, now), SupplyDateStart,
                                 me.date_from)
           cons == extract_dt_ranges(data_consumptions, dt_from, me.date_to, ConsGapInterval)
           maxim == extract_dt_ranges(data_maximeter, dt_from, me.date_to, MaximGapInterval)
           derived == process_consumptions(cons.lst, data_consumptions_daily_sum,
                                           data_consumptions_monthly_sum)
       IN  /\ data_consumptions' = cons.lst
           /\ data_maximeter' = maxim.lst
           /\ data_consumptions_daily_sum' = derived.daily
           /\ data_consumptions_monthly_sum' = derived.monthly
    /\ workers' = [workers EXCEPT ![w].pc = "done"]
    /\ UNCHANGED <<argVars, ret, connVars, procVars, callVars, now, data_supplies,
                   data_contracts, last_update, reconciled>>

NextWorkers ==
    \E w \in Workers :
        \/ AsyncUpdate(w)
        \/ WorkerScan(w)
        \/ WorkerFetch(w)
        \/ WorkerWrite(w)
        \/ WorkerMaximeter(w)
        \/ WorkerRescan(w)

SpecWorkers == InitWorkers /\ [][NextWorkers]_vars

\* thread w is inside update
InUpdate(w) == workers[w].pc \in {"scan", "fetching", "write"}

\* C15: updates of one helper are serialized: two threads started by
\* async_update are never inside update at the same time, so the assignment that
\* ends a reconcile never removes from self.data["consumptions"] a record that
\* another thread's reconcile has put there.
C15_Serialized ==
    [][\A w \in Workers :
          WorkerWrite(w) =>
              /\ \A v \in Workers \ {w} : ~InUpdate(v)
              /\ KeysOf(data_consumptions, "datetime")
                     \subseteq KeysOf(data_consumptions', "datetime")]_vars

\* ------------------------------------------------- calls of get_pvpc_tariff

\* everything but the arguments of a processor call is as after construction
InitNoCall ==
    /\ arg_lst = <<>>
    /\ arg_new = <<>>
    /\ arg_from = 0
    /\ arg_to = 0
    /\ arg_gap = 0
    /\ ret = NoCall
    /\ InitHelper
    /\ InitConn
    /\ InitAsync
    /\ InitDerived

\* every hour of a week, on a public holiday or not
InitTariff ==
    /\ args \in [op : {"get_pvpc_tariff"}, weekday : 0..6, hour : 0..23, holiday : BOOLEAN]
    /\ InitNoCall

CallTariff ==
    /\ ret.op = "none"
    /\ args.op = "get_pvpc_tariff"
    /\ ret' = [op |-> "get_pvpc_tariff",
               tariff |-> get_pvpc_tariff(args.weekday, args.hour, args.holiday)]
    /\ UNCHANGED <<argVars, helperVars, otherVars>>

NextTariff == CallTariff

SpecTariff == InitTariff /\ [][NextTariff]_vars

\* C16: tariff partition: get_pvpc_tariff returns one of p1, p2, p3 for every
\* weekday, hour and holiday flag; p3 for every hour of a Saturday, a Sunday or a
\* public holiday; on other days p1 for the hours 10-13 and 18-21, p2 for 8, 9,
\* 14-17, 22 and 23, and p3 for 0-7.
C16_TariffPartition ==
    ret.op = "get_pvpc_tariff" =>
        /\ ret.tariff \in {"p1", "p2", "p3"}
        /\ (args.weekday \in {5, 6} \/ args.holiday) => ret.tariff = "p3"
        /\ (args.weekday \in 0..4 /\ ~args.holiday) =>
               /\ args.hour \in (10..13) \cup (18..21) => ret.tariff = "p1"
               /\ args.hour \in {8, 9, 22, 23} \cup (14..17) => ret.tariff = "p2"
               /\ args.hour \in 0..7 => ret.tariff = "p3"

\* a Saturday evening that is no holiday has been classified
C16_Witness ==
    /\ ret.op = "get_pvpc_tariff"
    /\ args.weekday = 5
    /\ args.hour = 19
    /\ ~args.holiday
    /\ ret.tariff = "p3"

\* ------------------------------------------------- calls of ConsumptionProcessor

MaxAggLen == 3                \* longest series handed to ConsumptionProcessor

\* the datetimes of the check: midnight of days around the ends of January and
\* February, and the last hour of the first of March
AggDateTimes ==
    {DateTime(md[1], md[2], 0) :
        md \in {<<2, 29>>, <<2, 30>>, <<3, 28>>, <<4, 1>>, <<4, 2>>}}
    \cup {DateTime(4, 1, HoursPerDay - 1)}

AggRecords ==
    [datetime : AggDateTimes, delta_h : {1}, value_kWh : 1..MaxKWh, surplus_kWh : {0}]

\* consumption series sorted by datetime, and every cycle_start_day the schema
\* accepts
InitAgg ==
    /\ args \in [op : {"ConsumptionProcessor"},
                 consumptions : {l \in SeqUpTo(AggRecords, MaxAggLen) :
                                    \A n \in 1..(Len(l) - 1) :
                                        l[n].datetime <= l[n + 1].datetime},
                 cycle_start_day : 1..30]
    /\ InitNoCall

CallConsumptionProcessor ==
    /\ ret.op = "none"
    /\ args.op = "ConsumptionProcessor"
    /\ LET out == NewConsumptionProcessor(AsDict(args.consumptions, args.cycle_start_day))
       IN  ret' = [op |-> "ConsumptionProcessor", daily |-> out.daily,
                   monthly |-> out.monthly]
    /\ UNCHANGED <<argVars, helperVars, otherVars>>

NextAgg == CallConsumptionProcessor

SpecAgg == InitAgg /\ [][NextAgg]_vars

\* the sum of value_kWh over the records of l that satisfy Test
RECURSIVE SumWhere(_, _, _)
SumWhere(l, Test(_), n) ==
    IF n > Len(l) THEN 0
    ELSE (IF Test(l[n]) THEN l[n].value_kWh ELSE 0) + SumWhere(l, Test, n + 1)

\* the monthly buckets are one per billing month of the input, Month giving the
\* billing month of a record, and each holds the sum of its month's records
MonthlySumLaw(Month(_)) ==
    /\ \A n \in 1..Len(ret.monthly) : \A m \in (n + 1)..Len(ret.monthly) :
           ret.monthly[n].datetime # ret.monthly[m].datetime
    /\ {ret.monthly[n].datetime : n \in 1..Len(ret.monthly)}
           = {Month(args.consumptions[n]) : n \in 1..Len(args.consumptions)}
    /\ \A n \in 1..Len(ret.monthly) :
           ret.monthly[n].value_kWh
               = SumWhere(args.consumptions,
                          LAMBDA c : Month(c) = ret.monthly[n].datetime, 1)

\* the billing month as the claim words it: the month of the record when its day
\* is at least cycle_start_day, the month before otherwise
StatedMonth(c) ==
    LET date == DateOf(c.datetime)
    IN  IF DayOfDate(date) >= args.cycle_start_day
        THEN FirstOfMonth(date)
        ELSE DayNumber(MonthOfDate(date) - 1, 1)

\* the billing month as the month of the day cycle_start_day - 1 days earlier
ShiftedMonth(c) ==
    LET date == DateOf(c.datetime) - (args.cycle_start_day - 1)
    IN  DayNumber(MonthOfDate(date), 1)

\* C17 as stated: for a sorted series and a cycle_start_day in 1..30 there is
\* one monthly bucket per billing month of the input, a record of day d of month
\* m belonging to m when d >= cycle_start_day and to the month before otherwise,
\* and the bucket's value_kWh is the sum of value_kWh of its records.
C17_SumLawStated ==
    ret.op = "ConsumptionProcessor" => MonthlySumLaw(StatedMonth)

\* C17: aggregation sum law: for a sorted series and a cycle_start_day in 1..30
\* there is one monthly bucket per billing month of the input, the billing month
\* of a record being the calendar month of the day cycle_start_day - 1 days
\* before it, and the bucket's value_kWh is the sum of value_kWh of its records.
C17_SumLaw ==
    ret.op = "ConsumptionProcessor" => MonthlySumLaw(ShiftedMonth)

\* two records of one billing month and one of the next, the cycle starting
\* inside the month
C17_Witness ==
    /\ ret.op = "ConsumptionProcessor"
    /\ args.cycle_start_day = 30
    /\ Len(args.consumptions) = 3
    /\ Len(ret.monthly) = 2
    /\ ret.monthly[1].value_kWh = args.consumptions[1].value_kWh
                                   + args.consumptions[2].value_kWh
    /\ MonthOfDate(DateOf(args.consumptions[1].datetime))
           # MonthOfDate(DateOf(args.consumptions[2].datetime))

\* ------------------------------------------------- processors/billing.py

MaxBillLen == 2               \* longest consumption series handed to BillingProcessor

\* stands for Python's None; every number of the model is >= 0
None == -1

\* amounts are whole multiples of a ten-thousandth; round(x, 3) keeps the
\* thousandths. No amount of the model lies halfway between two thousandths.
Thousandth == 10

\* round(x, 3)
Round3(x) == ((x + (Thousandth \div 2)) \div Thousandth) * Thousandth

\* the while loop over a contract visits date_start and then every hour before
\* date_end
ContractCovers(contract, a_datetime) ==
    a_datetime = contract.date_start
    \/ (contract.date_start < a_datetime /\ a_datetime < contract.date_end)

\* the position of the last element of lst that satisfies Test, 0 when none does
RECURSIVE LastWhere(_, _, _)
LastWhere(lst, Test(_), n) ==
    IF n = 0 THEN 0 ELSE IF Test(lst[n]) THEN n ELSE LastWhere(lst, Test, n - 1)

\* _data[t] after the joins: the last consumption, contract and price of t.
\* prices is a list: None is skipped like the empty list.
JoinedItem(input, t) ==
    LET c == LastWhere(input.consumptions, LAMBDA x : x.datetime = t,
                       Len(input.consumptions))
        k == LastWhere(input.contracts, LAMBDA x : ContractCovers(x, t),
                       Len(input.contracts))
        p == LastWhere(input.prices, LAMBDA x : x.datetime = t, Len(input.prices))
    IN  [datetime |-> t,
         kwh |-> input.consumptions[c].value_kWh,
         surplus_kwh |-> input.consumptions[c].surplus_kWh,
         has_power |-> k # 0,
         p1_kw |-> IF k # 0 THEN input.contracts[k].power_p1 ELSE None,
         p2_kw |-> IF k # 0 THEN input.contracts[k].power_p2 ELSE None,
         has_price |-> p # 0,
         price |-> IF p # 0 THEN input.prices[p].value_eur_kWh ELSE None]

\* the flat rate of the tariff period of t
FlatRate(rules, t) ==
    CASE TariffOf(t) = "p1" -> rules.p1_kwh_eur
      [] TariffOf(t) = "p2" -> rules.p2_kwh_eur
      [] OTHER -> rules.p3_kwh_eur

SurplusRate(rules, t) ==
    CASE TariffOf(t) = "p1" -> rules.surplus_p1_kwh_eur
      [] TariffOf(t) = "p2" -> rules.surplus_p2_kwh_eur
      [] OTHER -> rules.surplus_p3_kwh_eur

\* x["kwh_eur"]
KwhEur(rules, x) == IF x.has_price THEN x.price ELSE FlatRate(rules, x.datetime)

\* DEFAULT_ENERGY_BILLING_FORMULA
EnergyFormula(rules, x) == rules.electricity_tax * rules.iva_tax * KwhEur(rules, x) * x.kwh

\* DEFAULT_POWER_BILLING_FORMULA
PowerFormula(rules, x) ==
    ((rules.electricity_tax * rules.iva_tax
      * (x.p1_kw * (rules.p1_kw_year_eur + rules.market_kw_year_eur)
         + x.p2_kw * rules.p2_kw_year_eur)) \div 365) \div 24

\* DEFAULT_OTHERS_BILLING_FORMULA
OthersFormula(rules, x) == ((rules.iva_tax * rules.meter_month_eur) \div 30) \div 24

\* DEFAULT_SURPLUS_BILLING_FORMULA
SurplusFormula(rules, x) == x.surplus_kwh * SurplusRate(rules, x.datetime)

\* a variant that skips every hour without a flat rate, priced or not
UnpriceableIgnoringPrices(rules, x) == FlatRate(rules, x.datetime) = None

\* the hour is skipped: no price record and no flat rate
Unpriceable(rules, x) == ~x.has_price /\ FlatRate(rules, x.datetime) = None

\* evaluating the formulas raises: p1_kw or p2_kw is undefined (no contract
\* covers the hour) or None, or the surplus rate is None
FormulaRaises(rules, x) ==
    \/ ~x.has_power
    \/ x.p1_kw = None
    \/ x.p2_kw = None
    \/ SurplusRate(rules, x.datetime) = None

\* new_item of an hour
HourlyItem(rules, x) ==
    LET energy_term == Round3(Round3(EnergyFormula(rules, x)))
        power_term == Round3(Round3(PowerFormula(rules, x)))
        others_term == Round3(Round3(OthersFormula(rules, x)))
        surplus_term == Round3(Round3(SurplusFormula(rules, x)))
    IN  [datetime |-> x.datetime, energy_term |-> energy_term, power_term |-> power_term,
         others_term |-> others_term, surplus_term |-> surplus_term,
         value_eur |-> Round3(energy_term + power_term + others_term - surplus_term),
         delta_h |-> 1]

\* the datetimes of the consumptions in ascending order, each once
RECURSIVE SortedSet(_)
SortedSet(S) ==
    IF S = {} THEN <<>>
    ELSE LET m == CHOOSE x \in S : \A y \in S : x <= y
         IN  <<m>> \o SortedSet(S \ {m})

\* the loop that builds hourly, from the n-th joined item on
RECURSIVE HourlyLoop(_, _, _, _)
HourlyLoop(input, times, n, hourly) ==
    IF n > Len(times) THEN [raised |-> FALSE, hourly |-> hourly]
    ELSE LET x == JoinedItem(input, times[n])
         IN  IF Unpriceable(input.rules, x)
             THEN HourlyLoop(input, times, n + 1, hourly)
             ELSE IF FormulaRaises(input.rules, x)
             THEN [raised |-> TRUE, hourly |-> <<>>]
             ELSE HourlyLoop(input, times, n + 1,
                             Append(hourly, HourlyItem(input.rules, x)))

\* appends the hour to the buckets: a new bucket when key differs from the key
\* of the last hour, otherwise added to the last bucket
AddToCostBuckets(buckets, first, key, last_key, hour) ==
    IF first \/ key # last_key
    THEN Append(buckets, [hour EXCEPT !.datetime = key])
    ELSE [buckets EXCEPT ![Len(buckets)] =
             [datetime |-> @.datetime,
              energy_term |-> @.energy_term + hour.energy_term,
              power_term |-> @.power_term + hour.power_term,
              others_term |-> @.others_term + hour.others_term,
              surplus_term |-> @.surplus_term + hour.surplus_term,
              value_eur |-> @.value_eur + hour.value_eur,
              delta_h |-> @.delta_h + hour.delta_h]]

\* the loop over hourly that builds daily and monthly
RECURSIVE RollUpLoop(_, _, _, _, _, _)
RollUpLoop(hourly, n, daily, monthly, last_day_dt, last_month_dt) ==
    IF n > Len(hourly) THEN [daily |-> daily, monthly |-> monthly]
    ELSE LET curr_day_dt == DateOf(hourly[n].datetime)
             curr_month_dt == FirstOfMonth(curr_day_dt)
         IN  RollUpLoop(hourly, n + 1,
                        AddToCostBuckets(daily, n = 1, curr_day_dt, last_day_dt, hourly[n]),
                        AddToCostBuckets(monthly, n = 1, curr_month_dt, last_month_dt,
                                         hourly[n]),
                        curr_day_dt, curr_month_dt)

\* the final rounding of the items of a list
RoundAll(costs) ==
    [n \in 1..Len(costs) |->
        [datetime |-> costs[n].datetime,
         energy_term |-> Round3(costs[n].energy_term),
         power_term |-> Round3(costs[n].power_term),
         others_term |-> Round3(costs[n].others_term),
         surplus_term |-> Round3(costs[n].surplus_term),
         value_eur |-> Round3(costs[n].value_eur),
         delta_h |-> costs[n].delta_h]]

\* BillingProcessor.do_process
BillingProcessor(input) ==
    LET times == SortedSet(KeysOf(input.consumptions, "datetime"))
        hours == HourlyLoop(input, times, 1, <<>>)
        rolled == RollUpLoop(hours.hourly, 1, <<>>, <<>>, 0, 0)
    IN  IF hours.raised
        THEN [raised |-> TRUE, hourly |-> <<>>, daily |-> <<>>, monthly |-> <<>>]
        ELSE [raised |-> FALSE, hourly |-> RoundAll(hours.hourly),
              daily |-> RoundAll(rolled.daily), monthly |-> RoundAll(rolled.monthly)]

\* a Monday at 09:00 (p2) and at 10:00 (p1), the Tuesday after at 00:00 (p3),
\* and the first of February at 10:00 (p1)
BillTimes ==
    {DateTime(2, 9, 9), DateTime(2, 9, 10), DateTime(2, 10, 0), DateTime(3, 1, 10)}

BillConsumptions ==
    [datetime : BillTimes, value_kWh : 1..MaxKWh, surplus_kWh : {0}]

\* no contract, or one from the Monday at 09:00 that ends at once, two hours
\* later or after the last hour, with a power that may be None
BillContracts ==
    {<<>>} \cup
    {<<[date_start |-> DateTime(2, 9, 9), date_end |-> e,
        power_p1 |-> pw[1], power_p2 |-> pw[2]]>> :
        e \in {DateTime(2, 9, 9), DateTime(2, 9, 11), DateTime(3, 2, 0)},
        pw \in {<<1, 1>>, <<None, 1>>, <<1, None>>}}

\* no prices, or the price of one hour
BillPrices ==
    {<<>>} \cup
    {<<[datetime |-> t, value_eur_kWh |-> 4]>> :
        t \in {DateTime(2, 9, 10), DateTime(2, 10, 0)}}

\* rules without fixed charges; a flat rate and the surplus rate of p1 may be None
BillRules ==
    {[p1_kw_year_eur |-> 0, p2_kw_year_eur |-> 0, market_kw_year_eur |-> 0,
      meter_month_eur |-> 0, electricity_tax |-> 1, iva_tax |-> iva,
      p1_kwh_eur |-> flat[1], p2_kwh_eur |-> flat[2], p3_kwh_eur |-> flat[3],
      surplus_p1_kwh_eur |-> surplus, surplus_p2_kwh_eur |-> 0,
      surplus_p3_kwh_eur |-> 0] :
        iva \in 1..2,
        flat \in {<<None, None, None>>, <<4, None, None>>, <<None, 4, 4>>, <<4, 4, 4>>},
        surplus \in {0, None}}

InitBilling ==
    /\ args \in [op : {"BillingProcessor"},
                 consumptions : SeqUpTo(BillConsumptions, MaxBillLen),
                 contracts : BillContracts,
                 prices : BillPrices,
                 rules : BillRules]
    /\ InitNoCall

CallBillingProcessor ==
    /\ ret.op = "none"
    /\ args.op = "BillingProcessor"
    /\ LET out == BillingProcessor(args)
       IN  ret' = [op |-> "BillingProcessor", raised |-> out.raised,
                   hourly |-> out.hourly, daily |-> out.daily, monthly |-> out.monthly]
    /\ UNCHANGED <<argVars, helperVars, otherVars>>

NextBilling == CallBillingProcessor

SpecBilling == InitBilling /\ [][NextBilling]_vars

BillingReturned == ret.op = "BillingProcessor" /\ ~ret.raised

\* C18: when do_process returns, the hourly output has an entry for a
\* consumption timestamp t exactly when a price record exists for t or the flat
\* rate of the tariff period of t is not None; the entries are in ascending
\* order of timestamp, one per timestamp, and every entry is of a consumption
\* timestamp.
C18_ExcludedIffUnpriceable ==
    BillingReturned =>
        /\ \A t \in KeysOf(args.consumptions, "datetime") :
              (t \in KeysOf(ret.hourly, "datetime"))
                  <=> (\/ t \in KeysOf(args.prices, "datetime")
                       \/ FlatRate(args.rules, t) # None)
        /\ KeysOf(ret.hourly, "datetime") \subseteq KeysOf(args.consumptions, "datetime")
        /\ \A n \in 1..(Len(ret.hourly) - 1) :
              ret.hourly[n].datetime < ret.hourly[n + 1].datetime

\* a run that bills one hour by its price record, although the flat rate of its
\* period is None, and excludes another hour
C18_Witness ==
    /\ BillingReturned
    /\ \E t \in KeysOf(ret.hourly, "datetime") :
          /\ FlatRate(args.rules, t) = None
          /\ t \in KeysOf(args.prices, "datetime")
    /\ \E t \in KeysOf(args.consumptions, "datetime") :
          t \notin KeysOf(ret.hourly, "datetime")

\* C19: do_process returns on every input the schema accepts, also when no
\* contract covers a consumption hour and when power_p1 or power_p2 is None.
C19_NeverRaises == ret.op = "BillingProcessor" => ~ret.raised

\* the sum of F over the elements of S
RECURSIVE SumOver(_, _)
SumOver(F(_), S) ==
    IF S = {} THEN 0
    ELSE LET x == CHOOSE y \in S : TRUE
         IN  F(x) + SumOver(F, S \ {x})

\* the billed hours of a day and of a month
BilledHoursOfDay(date) ==
    {t \in KeysOf(ret.hourly, "datetime") : DateOf(t) = date}
BilledHoursOfMonth(date) ==
    {t \in KeysOf(ret.hourly, "datetime") : FirstOfMonth(DateOf(t)) = date}

\* every term of the bucket is the sum of the unrounded terms of hours, rounded once
SumThenRound(bucket, hours) ==
    /\ bucket.energy_term =
          Round3(SumOver(LAMBDA t : EnergyFormula(args.rules, JoinedItem(args, t)), hours))
    /\ bucket.power_term =
          Round3(SumOver(LAMBDA t : PowerFormula(args.rules, JoinedItem(args, t)), hours))
    /\ bucket.others_term =
          Round3(SumOver(LAMBDA t : OthersFormula(args.rules, JoinedItem(args, t)), hours))
    /\ bucket.surplus_term =
          Round3(SumOver(LAMBDA t : SurplusFormula(args.rules, JoinedItem(args, t)), hours))

\* C20: when do_process returns, each cost term of a daily or monthly bucket is
\* the sum of the unrounded hourly terms of the hours of the bucket, rounded
\* once after summing.
C20_SumThenRound ==
    BillingReturned =>
        /\ \A n \in 1..Len(ret.daily) :
              SumThenRound(ret.daily[n], BilledHoursOfDay(ret.daily[n].datetime))
        /\ \A n \in 1..Len(ret.monthly) :
              SumThenRound(ret.monthly[n], BilledHoursOfMonth(ret.monthly[n].datetime))

\* ------------------------------------------------- the two roll-ups of one series

\* consumption records as both processors read them
CycleRecords ==
    [datetime : BillTimes, delta_h : {1}, value_kWh : 1..MaxKWh, surplus_kWh : {0}]

\* a reconciled series, sorted by datetime without repetition, and every
\* cycle_start_day the schema of ConsumptionProcessor accepts. The schema of
\* BillingProcessor has no key for a cycle start day.
InitCycle ==
    /\ args \in [op : {"roll_ups"},
                 consumptions : {l \in SeqUpTo(CycleRecords, MaxBillLen) :
                                    \A n \in 1..(Len(l) - 1) :
                                        l[n].datetime < l[n + 1].datetime},
                 contracts : BillContracts,
                 prices : {<<>>},
                 rules : {r \in BillRules : r.surplus_p1_kwh_eur # None},
                 cycle_start_day : 1..30]
    /\ InitNoCall

\* ConsumptionProcessor and BillingProcessor on the same series
CallRollUps ==
    /\ ret.op = "none"
    /\ args.op = "roll_ups"
    /\ LET cons == ConsumptionProcessor(args.consumptions, args.cycle_start_day)
           cost == BillingProcessor(args)
       IN  ret' = [op |-> "roll_ups", raised |-> cost.raised,
                   hourly |-> cost.hourly, cost_monthly |-> cost.monthly,
                   consumptions_monthly |-> cons.monthly]
    /\ UNCHANGED <<argVars, helperVars, otherVars>>

NextCycle == CallRollUps

SpecCycle == InitCycle /\ [][NextCycle]_vars

\* C21: for every cycle_start_day in 1..30, when every hour of the series is
\* billed, the monthly cost buckets have the month keys of the monthly
\* consumption buckets: each hour is rolled into buckets of the same month.
C21_SameMonthKeys ==
    (/\ ret.op = "roll_ups"
     /\ ~ret.raised
     /\ Len(ret.hourly) = Len(args.consumptions)) =>
        KeysOf(ret.cost_monthly, "datetime") = KeysOf(ret.consumptions_monthly, "datetime")

\* ------------------------------------------------- helpers.py: process_data

\* the aggregates a stored state may hold: none, or a bucket of the day before
\* the data
StaleBucket ==
    [datetime |-> DateOf(Epoch), value_kWh |-> 1, delta_h |-> 1,
     value_p1_kWh |-> 0, value_p2_kWh |-> 0, value_p3_kWh |-> 1,
     surplus_kWh |-> 0, surplus_p1_kWh |-> 0, surplus_p2_kWh |-> 0, surplus_p3_kWh |-> 0]
LoadedSums == {<<>>, <<StaleBucket>>}

\* EdataHelper.__init__ with the data of a stored state: a sorted series and the
\* aggregates stored with it
InitProcess ==
    /\ pc = "idle"
    /\ now = FirstNow
    /\ ticks = 0
    /\ updates = 0
    /\ date_from = DataStart
    /\ date_to = DataStart
    /\ data_supplies = <<>>
    /\ data_contracts = <<>>
    /\ data_consumptions \in {l \in SeqUpTo(AggRecords, MaxAggLen) :
                                 \A n \in 1..(Len(l) - 1) : l[n].datetime < l[n + 1].datetime}
    /\ data_maximeter = <<>>
    /\ last_update = [supplies |-> Epoch, contracts |-> Epoch,
                      consumptions |-> Epoch, maximeter |-> Epoch]
    /\ miss_cons = <<>>
    /\ miss_maxim = <<>>
    /\ todo = <<>>
    /\ result = "none"
    /\ passes = 0
    /\ scan_miss = <<>>
    /\ requests = <<>>
    /\ reconciled = {}
    /\ data_consumptions_daily_sum \in LoadedSums
    /\ data_consumptions_monthly_sum \in LoadedSums
    /\ arg_lst = <<>>
    /\ arg_new = <<>>
    /\ arg_from = 0
    /\ arg_to = 0
    /\ arg_gap = 0
    /\ ret = NoCall
    /\ InitConn
    /\ InitAsync
    /\ args = NoArgs

\* EdataHelper.process_data, called on the helper: the exceptions of the process
\* methods are logged and swallowed. Without pricing rules process_cost does
\* nothing; the other methods write attributes only.
CallProcessData ==
    /\ pc \in {"idle", "done"}
    /\ pc' = "done"
    /\ LET derived == process_consumptions(data_consumptions, data_consumptions_daily_sum,
                                           data_consumptions_monthly_sum)
       IN  /\ data_consumptions_daily_sum' = derived.daily
           /\ data_consumptions_monthly_sum' = derived.monthly
           /\ ret' = [op |-> "process_data", raised |-> derived.raised]
    /\ UNCHANGED <<argVars, connVars, asyncVars, procVars, now, ticks, updates, date_from,
                   date_to, data_supplies, data_contracts, data_consumptions,
                   data_maximeter, last_update, miss_cons, miss_maxim, todo, result,
                   passes, scan_miss, requests, reconciled>>

NextProcess == CallProcessData

SpecProcess == InitProcess /\ [][NextProcess]_vars

\* C22: after every process_data pass the daily and monthly aggregates of the
\* helper are the aggregation of its current consumption series, empty when the
\* series is empty: no bucket is left from the loaded state or an earlier pass.
C22_AggregatesRecomputed ==
    ret.op = "process_data" =>
        LET out == ConsumptionProcessor(data_consumptions, 1)
        IN  /\ data_consumptions_daily_sum = out.daily
            /\ data_consumptions_monthly_sum = out.monthly

\* ------------------------------------------------- processors/utils.py: deserialize_dict

MaxRecords == 2               \* longest list of a serialized dict

\* the keys deserialize_dict looks at, and the TypedDict of their records
DataKeys == {"supplies", "contracts", "consumptions", "maximeter", "pvpc"}

\* definition.__required_keys__ of SupplyData, ContractData, ConsumptionData,
\* MaxPowerData and PricingData
RequiredKeys(key) ==
    CASE key = "supplies" ->
           {"cups", "date_start", "date_end", "address", "postal_code", "province",
            "municipality", "distributor", "pointType", "distributorCode"}
      [] key = "contracts" ->
           {"date_start", "date_end", "marketer", "distributorCode", "power_p1", "power_p2"}
      [] key = "consumptions" ->
           {"datetime", "delta_h", "value_kWh", "surplus_kWh", "real"}
      [] key = "maximeter" -> {"datetime", "value_kW"}
      [] OTHER -> {"datetime", "value_eur_kWh", "delta_h"}

\* a record is the set of the fields it has: all the required ones, or all of
\* them but date_end, value_kWh and datetime
Items(key) == {RequiredKeys(key), RequiredKeys(key) \ {"date_end", "value_kWh", "datetime"}}

\* what a serialized dict holds under a key: nothing, something that is not a
\* list, or a list of records
NoValue == [present |-> FALSE, is_list |-> FALSE, items |-> <<>>]
NotAList == [present |-> TRUE, is_list |-> FALSE, items |-> <<>>]
Values(key) ==
    {NoValue, NotAList}
    \cup {[present |-> TRUE, is_list |-> TRUE, items |-> l] :
             l \in SeqUpTo(Items(key), MaxRecords)}

\* definitions.check_integrity: both of its branches return True
check_integrity(item, definition) ==
    IF \A k \in definition : k \in item THEN TRUE ELSE TRUE

\* deserialize_dict, for the fields its records have: None for {} and when a
\* value is not a list or check_integrity fails for one of its records,
\* otherwise the data
deserialize_dict(data) ==
    IF \A key \in DataKeys : ~data[key].present
    THEN [is_none |-> TRUE, data |-> data]
    ELSE IF \E key \in DataKeys :
               /\ data[key].present
               /\ \/ ~data[key].is_list
                  \/ \E n \in 1..Len(data[key].items) :
                        ~check_integrity(data[key].items[n], RequiredKeys(key))
         THEN [is_none |-> TRUE, data |-> data]
         ELSE [is_none |-> FALSE, data |-> data]

InitDeserialize ==
    /\ args \in [op : {"deserialize_dict"},
                 supplies : Values("supplies"), contracts : Values("contracts"),
                 consumptions : Values("consumptions"), maximeter : Values("maximeter"),
                 pvpc : Values("pvpc")]
    /\ InitNoCall

CallDeserialize ==
    /\ ret.op = "none"
    /\ args.op = "deserialize_dict"
    /\ LET out == deserialize_dict(args)
       IN  ret' = [op |-> "deserialize_dict", is_none |-> out.is_none]
    /\ UNCHANGED <<argVars, helperVars, otherVars>>

NextDeserialize == CallDeserialize

SpecDeserialize == InitDeserialize /\ [][NextDeserialize]_vars

\* a record of one of the lists lacks a required field
SomeFieldMissing ==
    \E key \in DataKeys : \E n \in 1..Len(args[key].items) :
        ~(RequiredKeys(key) \subseteq args[key].items[n])

\* the dict is not empty and all its values are lists
WellFormed ==
    /\ \E key \in DataKeys : args[key].present
    /\ \A key \in DataKeys : args[key].present => args[key].is_list

\* C23: deserialize_dict returns None whenever a record of the supplies,
\* contracts, consumptions, maximeter or pvpc list lacks a required field of its
\* record type, and returns the data of a dict of lists when every record has
\* them.
C23_RequiredFields ==
    ret.op = "deserialize_dict" =>
        /\ SomeFieldMissing => ret.is_none
        /\ (WellFormed /\ ~SomeFieldMissing) => ~ret.is_none

\* ------------------------------------------------- the trailing gap of extract_dt_ranges

\* the cursor after the last record of the window: the end of the last record
\* kept, dt_from when none is kept
CursorAfterLast ==
    IF ret.lst = <<>> THEN arg_from
    ELSE ret.lst[Len(ret.lst)]["datetime"] + DeltaH(ret.lst[Len(ret.lst)])

\* the last gap reported is the trailing gap {from: cursor, to: dt_to}
TrailingGapEmitted ==
    /\ ret.gaps # <<>>
    /\ ret.gaps[Len(ret.gaps)] = [from |-> CursorAfterLast, to |-> arg_to]

\* C24: for a series that is not empty, extract_dt_ranges reports the trailing
\* gap {from: cursor, to: dt_to} exactly when dt_to minus the cursor after the
\* last record of the window is more than gap_interval.
C24_TrailingGap ==
    (ret.op = "extract_dt_ranges" /\ arg_lst # <<>>) =>
        (TrailingGapEmitted <=> arg_to - CursorAfterLast > arg_gap)

\* ------------------------------------------------- the fetches of update_datadis

\* C25: every consumption and maximeter fetch that update_datadis issues, in the
\* loop over the contracts and for the period between the start of the supply
\* and the oldest contract, asks for a range with start <= end that lies inside
\* the window [date_from, date_to] of the call.
C25_FetchesInWindow ==
    \A n \in 1..Len(requests) :
        /\ requests[n].start <= requests[n].end
        /\ date_from <= requests[n].start
        /\ requests[n].end <= date_to

\* the maximeter fetches of one contract as C26 words them: one for each gap of
\* the maximeter series that intersects the contract
GapDrivenMaximeterFetches(contract, gaps) ==
    LET touching == SelectSeq(gaps, LAMBDA x :
                        ~(x.to < contract.date_start \/ x.from > contract.date_end))
    IN  [n \in 1..Len(touching) |->
            [kind |-> "maximeter",
             start |-> Max2(touching[n].from, contract.date_start + MonthHours),
             end |-> Min2(touching[n].to, contract.date_end)]]

RECURSIVE GapDrivenLoop(_, _, _)
GapDrivenLoop(contracts, gaps, n) ==
    IF n > Len(contracts) THEN <<>>
    ELSE GapDrivenMaximeterFetches(contracts[n], gaps) \o GapDrivenLoop(contracts, gaps, n + 1)

IsMaximeterFetch(fetch) == fetch.kind = "maximeter"

\* C26: the maximeter fetches that update_datadis plans in its loop over the
\* contracts are one per gap reported for the maximeter series that intersects
\* the contract, from max(gap.from, contract.date_start + 1 month) to
\* min(gap.to, contract.date_end); the gaps of the consumption series cause none.
C26_MaximeterGapsDrive ==
    [][(UpdateContracts /\ pc' = "fetching") =>
          SelectSeq(todo', IsMaximeterFetch)
              = GapDrivenLoop(data_contracts', miss_maxim', 1)
                \o SelectSeq(OrphanFetches(OldestContract(data_contracts', 1, now),
                                           SupplyDateStart, date_from),
                             IsMaximeterFetch)]_vars

\* ------------------------------------------------- connectors/datadis.py: get_consumption_data

MAX_CONSUMPTIONS_MONTHS == 1

\* date + relativedelta(months=1): the same day of the next month, the last day
\* of that month when it has no such day; the month after March has 30 days
NextMonth(date) ==
    LET m == MonthOfDate(date)
        d == DayOfDate(date)
    IN  IF m = Len(MonthLengths)
        THEN DaysBefore(m) + MonthLengths[m] + Min2(d, 30)
        ELSE DayNumber(m + 1, Min2(d, MonthLengths[m + 1]))

\* a_datetime + relativedelta(months=months)
RECURSIVE AddMonths(_, _)
AddMonths(a_datetime, months) ==
    IF months = 0 THEN a_datetime
    ELSE AddMonths((NextMonth(DateOf(a_datetime)) - 1) * HoursPerDay
                       + (a_datetime % HoursPerDay),
                   months - 1)

\* a variant of _end that is not cut at end_date
ChunkEndUncut(start, end_date) == AddMonths(start, MAX_CONSUMPTIONS_MONTHS)

\* _end of a sub-request that begins at start
ChunkEnd(start, end_date) == Min2(AddMonths(start, MAX_CONSUMPTIONS_MONTHS), end_date)

\* get_consumption_data(..., is_smart_fetch=True) for [start_date, end_date]: the
\* records of the answer whose datetime is in the range, in the order of the answer
SubRequest(server, start_date, end_date) ==
    SelectSeq(server, LAMBDA i : start_date <= i.datetime /\ i.datetime <= end_date)

\* the while loop of get_consumption_data with smart fetch
RECURSIVE ChunkLoop(_, _, _, _, _)
ChunkLoop(server, start, end_date, consumptions, subrequests) ==
    IF ~(start < end_date)
    THEN [raised |-> FALSE, consumptions |-> consumptions, subrequests |-> subrequests]
    ELSE LET end == ChunkEnd(start, end_date)
             got == SubRequest(server, start, end)
             merged == extend_by_key(consumptions, got, "datetime")
         IN  IF merged.raised
             THEN [raised |-> TRUE, consumptions |-> <<>>, subrequests |-> subrequests]
             ELSE ChunkLoop(server, end, end_date, merged.lst,
                            Append(subrequests, [start |-> start, end |-> end, got |-> got]))

\* DatadisConnector.get_consumption_data of a connector with smart fetch
get_consumption_data(server, start_date, end_date) ==
    ChunkLoop(server, start_date, end_date, <<>>, <<>>)

\* midnights around the ends of the months
ChunkTimes ==
    {DateTime(md[1], md[2], 0) :
        md \in {<<1, 1>>, <<1, 31>>, <<2, 30>>, <<2, 31>>, <<3, 28>>, <<4, 1>>, <<4, 30>>,
                <<4, 31>>}}

\* what the server holds: hourly records of some of these instants, oldest first
ServerTimes ==
    {DateTime(md[1], md[2], 0) :
        md \in {<<1, 15>>, <<1, 31>>, <<2, 31>>, <<3, 28>>, <<4, 15>>}}
ServerData ==
    {[n \in 1..Len(SortedSet(S)) |->
         [datetime |-> SortedSet(S)[n], delta_h |-> 1, value_kWh |-> 1, surplus_kWh |-> 0]] :
        S \in SUBSET ServerTimes}

InitChunks ==
    /\ args \in [op : {"get_consumption_data"}, server : ServerData,
                 start_date : ChunkTimes, end_date : ChunkTimes]
    /\ InitNoCall

CallGetConsumptionData ==
    /\ ret.op = "none"
    /\ args.op = "get_consumption_data"
    /\ LET out == get_consumption_data(args.server, args.start_date, args.end_date)
       IN  ret' = [op |-> "get_consumption_data", raised |-> out.raised,
                   consumptions |-> out.consumptions, subrequests |-> out.subrequests]
    /\ UNCHANGED <<argVars, helperVars, otherVars>>

NextChunks == CallGetConsumptionData

SpecChunks == InitChunks /\ [][NextChunks]_vars

\* the records of a list, as a set
ElementsOf(lst) == {lst[n] : n \in 1..Len(lst)}

\* C27: with smart fetch, get_consumption_data(start, end) with start < end
\* returns after sub-requests whose ranges are in ascending order, each beginning
\* where the one before ended, none longer than a month, the first beginning at
\* start and the last ending at end; the result holds the records of all the
\* sub-results, one per datetime.
C27_MonthChunks ==
    (ret.op = "get_consumption_data" /\ args.start_date < args.end_date) =>
        LET s == ret.subrequests
        IN  /\ ~ret.raised
            /\ Len(s) >= 1
            /\ s[1].start = args.start_date
            /\ s[Len(s)].end = args.end_date
            /\ \A n \in 1..Len(s) :
                  /\ s[n].start < s[n].end
                  /\ s[n].end <= AddMonths(s[n].start, 1)
            /\ \A n \in 1..(Len(s) - 1) : s[n + 1].start = s[n].end
            /\ ElementsOf(ret.consumptions) = UNION {ElementsOf(s[n].got) : n \in 1..Len(s)}
            /\ Cardinality(KeysOf(ret.consumptions, "datetime")) = Len(ret.consumptions)

\* a call split into three sub-requests or more, two of which return the same
\* record, the one of the instant where they meet
C27_Witness ==
    /\ ret.op = "get_consumption_data"
    /\ Len(ret.subrequests) >= 3
    /\ \E n \in 1..(Len(ret.subrequests) - 1) :
          ElementsOf(ret.subrequests[n].got) \cap ElementsOf(ret.subrequests[n + 1].got) # {}
    /\ Len(ret.consumptions) >= 2

\* ------------------------------------------------- the requests of one _get call

MaxServerReplies == 6         \* answers of the server (token and GET) one _get call may use

\* a connector that has made no query yet; the server gives the call at most
\* args.replies answers
InitReplies ==
    /\ args \in [op : {"_get"}, query : Queries, ignore_recent_queries : BOOLEAN,
                 replies : 1..MaxServerReplies]
    /\ InitNoCall

\* one call of _get from outside, with every sequence of answers of the server
\* that lets the call return
CallGet ==
    /\ ret.op = "none"
    /\ args.op = "_get"
    /\ \E r \in get(args.query, FALSE, FALSE, args.ignore_recent_queries,
                    recent_queries, recent_cache, 0, args.replies) :
          /\ recent_queries' = r.queries
          /\ recent_cache' = r.cache
          /\ ret' = [op |-> "_get", query |-> args.query, response |-> r.response,
                     raised |-> r.raised, http |-> r.http]
    /\ UNCHANGED <<argVars, helperVars, answers, last_http, gets, asyncVars, procVars,
                   derivedVars>>

NextReplies == CallGet

SpecReplies == InitReplies /\ [][NextReplies]_vars

\* C28: every call of _get ends after a bounded number of HTTP requests: the
\* first request, at most one more after a token refresh and at most one more
\* as the retry of an unexpected status.
C28_BoundedRequests ==
    ret.op = "_get" => ret.http <= 1 + 1 + 1

\* ------------------------------------------------- the throttle of update_consumptions

\* the step is a call of update_consumptions
IsUpdateConsumptions ==
    /\ pc = "fetching"
    /\ todo # <<>>
    /\ Head(todo).kind = "consumptions"
    /\ todo' = Tail(todo)

\* the calls of update_consumptions among lst
ConsumptionCalls(lst) == SelectSeq(lst, LAMBDA f : f.kind = "consumptions")

\* the calls of update_consumptions the loops of the current update_datadis make
PlannedConsumptionFetches ==
    ConsumptionCalls(ContractLoop(data_contracts, scan_miss, date_from, date_to, 1)
                     \o OrphanFetches(OldestContract(data_contracts, 1, now),
                                      SupplyDateStart, date_from))

MaxSplitLen == 3              \* longest series of the split check

\* what a record holds besides its datetime: with and without surplus, lasting
\* one or two hours
SplitFields == [delta_h : {1, 2}, value_kWh : 1..MaxKWh, surplus_kWh : {0, 1}]

\* series sorted by datetime without repeated datetimes: records of a Monday at
\* 09:00 (p2) and 10:00 (p1), of the Tuesday at 00:00 (p3) and of the first of
\* the next month at 10:00 (p1)
SplitSeries ==
    UNION {{[n \in 1..Len(times) |-> [datetime |-> times[n]] @@ fields[n]] :
               fields \in [1..Len(times) -> SplitFields]} :
           times \in {SortedSet(S) : S \in {T \in SUBSET BillTimes :
                                                Cardinality(T) <= MaxSplitLen}}}

\* with a cycle that starts on the 10th the Monday and the Tuesday are of
\* different billing months
InitSplit ==
    /\ args \in [op : {"ConsumptionProcessor"}, consumptions : SplitSeries,
                 cycle_start_day : {1, 10}]
    /\ InitNoCall

NextSplit == CallConsumptionProcessor

SpecSplit == InitSplit /\ [][NextSplit]_vars

\* the positions of the input whose record has the key of the bucket
RecordsOf(bucket, Key(_)) ==
    {n \in 1..Len(args.consumptions) : Key(args.consumptions[n]) = bucket.datetime}

\* the split is conserved in every bucket, Key giving the bucket a record is
\* accumulated into
SplitConserved(buckets, Key(_)) ==
    \A n \in 1..Len(buckets) :
        LET bucket == buckets[n]
        IN  /\ bucket.value_kWh
                  = bucket.value_p1_kWh + bucket.value_p2_kWh + bucket.value_p3_kWh
            /\ bucket.surplus_kWh
                  = bucket.surplus_p1_kWh + bucket.surplus_p2_kWh + bucket.surplus_p3_kWh
            /\ bucket.delta_h
                  = SumOver(LAMBDA i : args.consumptions[i].delta_h, RecordsOf(bucket, Key))

\* C30: tariff split conservation: in every daily and every monthly bucket
\* produced by ConsumptionProcessor, before the final rounding, value_kWh equals
\* value_p1_kWh + value_p2_kWh + value_p3_kWh, surplus_kWh equals
\* surplus_p1_kWh + surplus_p2_kWh + surplus_p3_kWh, and delta_h equals the sum
\* of delta_h of the records accumulated into the bucket.
C30_SplitConserved ==
    ret.op = "ConsumptionProcessor" =>
        /\ SplitConserved(ret.daily, LAMBDA c : DateOf(c.datetime))
        /\ SplitConserved(ret.monthly,
                          LAMBDA c : BillingMonth(c.datetime, args.cycle_start_day))

\* a day with a p2 hour and a p1 hour, both with surplus, followed by a p3 hour
\* of the next day, which the cycle that starts on the 10th puts into the next
\* billing month
C30_Witness ==
    /\ ret.op = "ConsumptionProcessor"
    /\ args.cycle_start_day = 10
    /\ Len(ret.daily) = 2
    /\ ret.daily[1].value_p1_kWh > 0 /\ ret.daily[1].value_p2_kWh > 0
    /\ ret.daily[1].surplus_p1_kWh > 0 /\ ret.daily[1].surplus_p2_kWh > 0
    /\ ret.daily[1].delta_h > 2
    /\ Len(ret.monthly) = 2
    /\ ret.monthly[1].value_p1_kWh > 0 /\ ret.monthly[1].value_p2_kWh > 0
    /\ ret.monthly[2].value_p3_kWh > 0

====
